---- MODULE Spec2Model ----
(***************************************************************************)
(* Clipper transaction-report parser: the line-oriented record parser and  *)
(* table assembler (parseLine, getCSV) and the content-stream text         *)
(* reconstructor (findPositionIdx, howManyTabs, extractText).              *)
(*                                                                         *)
(* Text is a sequence of one-character strings, so that splitting,         *)
(* prefix and substring tests are computed as the Go code computes them.   *)
(* PDF numbers are fixed-point integers in units of 1/200, which makes     *)
(* the eight column positions and their midpoints exact: 28 is 5600,       *)
(* 133.71 is 26742, 1100 is 220000, -100 is -20000.                        *)
(***************************************************************************)
EXTENDS Integers, Sequences, FiniteSets, TLC

VARIABLES
    \* getCSV
    pages,      \* the page texts handed to getCSV
    pageIdx,    \* the loop variable i, 1-based
    bs,         \* the lines the page's bufio.Scanner has still to deliver
    line,       \* the line counter of the current page
    records,    \* the table being assembled
    num,        \* the account number
    warnings,   \* what rest.Logger.Warn was called with, in order
    pc,         \* "idle", "page", "scan", "done", "failed"
    ret,        \* what getCSV returned
    \* extractText
    stream,     \* the operations of the page when they are given up front
    opIdx,      \* how many operations the loop has processed
    op,         \* the operation of the current iteration
    xPos, yPos, \* the cursor
    inText,     \* inside a BT .. ET block
    txt,        \* the text accumulated so far
    prevX,      \* history: the horizontal offset of the most recent well-formed Tm
    prevY,      \* history: the vertical offset of the most recent well-formed Tm
    tpc,        \* "idle", "loop", "returned", "failed", "panicked"
    tret,       \* what extractText returned
    \* findPositionIdx, howManyTabs
    fromPos,    \* the argument prevPos of howManyTabs
    toPos,      \* the argument pos of findPositionIdx, curPos of howManyTabs
    posRet,     \* what the call returned, or its panic
    ppc,        \* "idle", "classified", "counted"
    \* ParsePDF, extractPDFText
    doc,        \* the document read from r: the operations of every page
    pageNo,     \* the loop variable i of extractPDFText
    xpc,        \* "idle", "pages", "text", "csv", "returned", "panicked"
    out,        \* what ParsePDF returned
    \* two calls of ParsePDF one after the other
    run,        \* which call is running: 1, 2
    first,      \* what the first call returned
    \* two calls of ParsePDF in two goroutines
    docs,       \* the documents of the two calls
    cur,        \* the call that is running: 0 the one run alone, then 1 or 2
    parked,     \* the local variables of the call that is not running
    soloOf,     \* which of the two calls is also run alone
    solo,       \* what that call returned when it ran alone
    \* Client.DownloadPDFs
    dryRun,     \* the argument dryRun
    loggedIn,   \* c.loggedIn
    mu,         \* c.mu is held
    resp,       \* the response cards() reads the card list from
    cards,      \* the cards c.cards(ctx) returned
    csrfToken,  \* the token of the account page
    cardIdx,    \* the position of the range over cards, 1-based
    requests,   \* the HTTP requests sent, in order
    files,      \* the files written, in order
    printed,    \* the serial numbers of the "[DRY RUN]" lines printed, in order
    dpc,        \* "idle", "lock", "dashboard", "loginPage", "loginPost",
                \* "readCards", "accountPage", "loop", "returned"
    dret,       \* the error DownloadPDFs returned
    \* parseLine
    lineIn,     \* the argument text
    lineOut,    \* what parseLine returned
    lpc,        \* "idle", "parsed"
    \* Client.cards called from several goroutines
    cpc,        \* where each call is: "idle", "lock", "locked", "dashboard",
                \* "loginPage", "loginPost", "readCards", "returned"
    cresp,      \* the response each call received last
    cret,       \* the error each call returned
    holder      \* history: the call that holds c.mu, 0 when none does

csvVars == <<pages, pageIdx, bs, line, records, num, warnings, pc, ret>>
textVars == <<stream, opIdx, op, xPos, yPos, inText, txt, prevX, prevY, tpc, tret>>
posVars == <<fromPos, toPos, posRet, ppc>>
parseVars == <<doc, pageNo, xpc, out>>
twiceVars == <<run, first>>
concVars == <<docs, cur, parked, soloOf, solo>>
dlVars == <<dryRun, loggedIn, mu, resp, cards, csrfToken, cardIdx, requests, files,
            printed, dpc, dret>>
lineVars == <<lineIn, lineOut, lpc>>
callVars == <<cpc, cresp, cret, holder>>
vars == <<csvVars, textVars, posVars, parseVars, twiceVars, concVars, dlVars,
          lineVars, callVars>>
\* what a step of getCSV, and a step of extractText, cannot touch
notCSV == <<textVars, posVars, parseVars, twiceVars, concVars, dlVars, lineVars, callVars>>
notText == <<csvVars, posVars, parseVars, twiceVars, concVars, dlVars, lineVars, callVars>>

----------------------------------------------------------------------------
(* Strings *)

TAB == "\t"
NL == "\n"
CR == "\r"
SPACE == " "

\* strings.Contains
Contains(s, sub) ==
    \E k \in 0..(Len(s) - Len(sub)) : SubSeq(s, k + 1, k + Len(sub)) = sub

\* strings.HasPrefix
HasPrefix(s, p) == Len(s) >= Len(p) /\ SubSeq(s, 1, Len(p)) = p

\* strings.Split with a one-character separator: always at least one field
RECURSIVE Split(_, _)
Split(s, sep) ==
    IF \A k \in 1..Len(s) : s[k] # sep
    THEN <<s>>
    ELSE LET k == CHOOSE j \in 1..Len(s) :
                      s[j] = sep /\ \A m \in 1..(j - 1) : s[m] # sep
         IN  <<SubSeq(s, 1, k - 1)>> \o Split(SubSeq(s, k + 1, Len(s)), sep)

\* strings.Repeat of a one-character string
Repeat(c, count) == [k \in 1..count |-> c]

\* bufio.ScanLines' dropCR
dropCR(s) ==
    IF Len(s) > 0 /\ s[Len(s)] = CR THEN SubSeq(s, 1, Len(s) - 1) ELSE s

\* The tokens bufio.Scanner delivers with bufio.ScanLines: the text between
\* newlines, a trailing \r dropped, and no token for an empty rest at the end.
ScanLines(text) ==
    LET parts == Split(text, NL)
        kept  == IF parts[Len(parts)] = <<>>
                 THEN SubSeq(parts, 1, Len(parts) - 1)
                 ELSE parts
    IN  [k \in 1..Len(kept) |-> dropCR(kept[k])]

Digits == {"0", "1", "2", "3", "4", "5", "6", "7", "8", "9"}

DigitVal(c) ==
    CASE c = "0" -> 0 [] c = "1" -> 1 [] c = "2" -> 2 [] c = "3" -> 3
      [] c = "4" -> 4 [] c = "5" -> 5 [] c = "6" -> 6 [] c = "7" -> 7
      [] c = "8" -> 8 [] c = "9" -> 9

RECURSIVE DecimalVal(_)
DecimalVal(s) ==
    IF s = <<>> THEN 0
    ELSE 10 * DecimalVal(SubSeq(s, 1, Len(s) - 1)) + DigitVal(s[Len(s)])

\* strconv.ParseInt(s, 10, 64): an optional sign and at least one digit; on a
\* syntax error the value returned is 0.  (The tokens of the model stay far
\* below 2^63, so the range error is not modelled.)
ParseInt(s) ==
    LET signed == Len(s) > 0 /\ s[1] \in {"+", "-"}
        body   == IF signed THEN SubSeq(s, 2, Len(s)) ELSE s
        ok     == Len(body) > 0 /\ \A k \in 1..Len(body) : body[k] \in Digits
    IN  IF ~ok THEN [val |-> 0, err |-> "syntax"]
        ELSE [val |-> IF signed /\ s[1] = "-" THEN 0 - DecimalVal(body)
                      ELSE DecimalVal(body),
              err |-> "nil"]

----------------------------------------------------------------------------
(* Record parser *)

TitleText == <<"T", "R", "A", "N", "S", "A", "C", "T", "I", "O", "N", " ", "H", "I", "S", "T", "O", "R", "Y", " ", "F", "O", "R">>
CardPrefix == <<"C", "A", "R", "D", " ">>
ColumnPrefix == <<"T", "R", "A", "N", "S", "A", "C", "T", "I", "O", "N", " ", "T", "Y", "P", "E", "\t", "L", "O", "C", "A", "T", "I", "O", "N", "\t", "R", "O", "U", "T", "E">>
PageMarker == <<"P", "a", "g", "e", " ">>
Disclaimer == <<"I", "f", " ", "t", "h", "e", "r", "e", " ", "i", "s", " ", "a", " ", "d", "i", "s", "c", "r", "e", "p", "a", "n", "c", "y", " ", "i", "n", " ", "t", "h", "e", " ", "l", "i", "s", "t", "i", "n", "g", " ", "o", "f", " ", "t", "h", "e", " ", "c", "a", "r", "d", " ", "b", "a", "l", "a", "n", "c", "e">>

NoErr == [kind |-> "nil", text |-> <<>>]
EOF == [kind |-> "EOF", text |-> <<>>]
InvalidLine(text) == [kind |-> "invalid line", text |-> text]

\* IsPageFooter with the empty fields looked for one place to the left
IsPageFooterShifted(parts) ==
    /\ Len(parts) = 8
    /\ parts[1] = <<>> /\ parts[2] = <<>> /\ parts[3] = <<>>
    /\ Contains(parts[8], PageMarker)

\* the page-number line: 8 fields, fields 1, 2, 3 empty, "Page " in field 7
IsPageFooter(parts) ==
    /\ Len(parts) = 8
    /\ parts[2] = <<>> /\ parts[3] = <<>> /\ parts[4] = <<>>
    /\ Contains(parts[8], PageMarker)

\* the trailing disclaimer: fewer than 8 fields, the disclaimer in field 0
IsDisclaimer(parts) == Len(parts) < 8 /\ Contains(parts[1], Disclaimer)

\* parseLine without its field-count check
parseLineAnyCount(text) ==
    LET parts == Split(text, TAB)
    IN  IF IsPageFooter(parts) THEN [parts |-> <<>>, err |-> EOF]
        ELSE IF IsDisclaimer(parts) THEN [parts |-> <<>>, err |-> EOF]
        ELSE [parts |-> parts, err |-> NoErr]

\* parseLine that takes the disclaimer for the sentinel whatever the count
parseLineDisclaimerAnyCount(text) ==
    LET parts == Split(text, TAB)
    IN  IF IsPageFooter(parts) THEN [parts |-> <<>>, err |-> EOF]
        ELSE IF Contains(parts[1], Disclaimer) THEN [parts |-> <<>>, err |-> EOF]
        ELSE IF Len(parts) # 8 THEN [parts |-> <<>>, err |-> InvalidLine(text)]
        ELSE [parts |-> parts, err |-> NoErr]

parseLine(text) ==
    LET parts == Split(text, TAB)
    IN  IF IsPageFooter(parts) THEN [parts |-> <<>>, err |-> EOF]
        ELSE IF IsDisclaimer(parts) THEN [parts |-> <<>>, err |-> EOF]
        ELSE IF Len(parts) # 8 THEN [parts |-> <<>>, err |-> InvalidLine(text)]
        ELSE [parts |-> parts, err |-> NoErr]

recordHeader ==
    << <<"D", "a", "t", "e">>,
       <<"T", "r", "a", "n", "s", "a", "c", "t", "i", "o", "n", " ", "T", "y", "p", "e">>,
       <<"L", "o", "c", "a", "t", "i", "o", "n">>,
       <<"R", "o", "u", "t", "e">>,
       <<"P", "r", "o", "d", "u", "c", "t">>,
       <<"D", "e", "b", "i", "t">>,
       <<"C", "r", "e", "d", "i", "t">>,
       <<"B", "a", "l", "a", "n", "c", "e">> >>

----------------------------------------------------------------------------
(* Table assembler: getCSV, one action per loop step *)

Warn(msg, text) == Append(warnings, [msg |-> msg, line |-> line, text |-> text])

\* CallGetCSV going on with the table of the call before
CallGetCSVKeepsRecords ==
    /\ pc = "idle"
    /\ records' = IF records = <<>> THEN <<recordHeader>> ELSE records
    /\ num' = -1
    /\ pageIdx' = 1
    /\ pc' = "page"
    /\ UNCHANGED <<pages, bs, line, warnings, ret>>

\* lines 288-291: the header row, the account-number sentinel, the first page
CallGetCSV ==
    /\ pc = "idle"
    /\ records' = <<recordHeader>>
    /\ num' = -1
    /\ pageIdx' = 1
    /\ pc' = "page"
    /\ UNCHANGED <<pages, bs, line, warnings, ret>>

\* for i := range pages: a scanner over the page, line := 0
OpenPage ==
    /\ pc = "page"
    /\ pageIdx <= Len(pages)
    /\ bs' = ScanLines(pages[pageIdx])
    /\ line' = 0
    /\ pc' = "scan"
    /\ UNCHANGED <<pages, pageIdx, records, num, warnings, ret>>

\* bs.Scan() returns false: on to the next page
EndOfPage ==
    /\ pc = "scan"
    /\ bs = <<>>
    /\ pageIdx' = pageIdx + 1
    /\ pc' = "page"
    /\ UNCHANGED <<pages, bs, line, records, num, warnings, ret>>

\* page 1, line 0: the title
ScanTitle ==
    /\ pc = "scan" /\ bs # <<>> /\ pageIdx = 1 /\ line = 0
    /\ warnings' = IF bs[1] # TitleText
                   THEN Warn("Unexpected line text", bs[1]) ELSE warnings
    /\ line' = line + 1
    /\ bs' = Tail(bs)
    /\ UNCHANGED <<pages, pageIdx, records, num, pc, ret>>

\* page 1, line 1: "CARD <number>"
ScanCard ==
    /\ pc = "scan" /\ bs # <<>> /\ pageIdx = 1 /\ line = 1
    /\ LET text   == bs[1]
           parts  == Split(text, SPACE)
           parsed == ParseInt(parts[2])
       IN  IF ~HasPrefix(text, CardPrefix)
           THEN /\ warnings' = Warn("Unexpected line text", text)
                /\ num' = num
           ELSE IF Len(parts) # 2
           THEN /\ warnings' = Warn("Unexpected line text", text)
                /\ num' = num
           ELSE /\ num' = parsed.val
                /\ warnings' = IF parsed.err # "nil"
                               THEN Warn("error reading account number", text)
                               ELSE warnings
    /\ line' = line + 1
    /\ bs' = Tail(bs)
    /\ UNCHANGED <<pages, pageIdx, records, pc, ret>>

\* page 1, line 2: the column header
ScanColumns ==
    /\ pc = "scan" /\ bs # <<>> /\ pageIdx = 1 /\ line = 2
    /\ warnings' = IF ~HasPrefix(bs[1], ColumnPrefix)
                   THEN Warn("Unexpected line text", bs[1]) ELSE warnings
    /\ line' = line + 1
    /\ bs' = Tail(bs)
    /\ UNCHANGED <<pages, pageIdx, records, num, pc, ret>>

\* ScanPageHeader handing a line that is not the column header to parseLine
ScanPageHeaderParsesMismatch ==
    /\ pc = "scan" /\ bs # <<>> /\ pageIdx > 1 /\ line = 0
    /\ IF HasPrefix(bs[1], ColumnPrefix)
       THEN /\ line' = line + 1
            /\ bs' = Tail(bs)
            /\ UNCHANGED <<pages, pageIdx, records, num, warnings, pc, ret>>
       ELSE LET r == parseLine(bs[1])
            IN  /\ warnings' = Warn("Unexpected line text", bs[1])
                /\ IF r.err = EOF
                   THEN /\ pageIdx' = pageIdx + 1
                        /\ pc' = "page"
                        /\ UNCHANGED <<pages, bs, line, records, num, ret>>
                   ELSE IF r.err # NoErr
                   THEN /\ pc' = "failed"
                        /\ ret' = [num |-> num, records |-> <<>>, err |-> r.err]
                        /\ UNCHANGED <<pages, pageIdx, bs, line, records, num>>
                   ELSE /\ records' = Append(records, r.parts)
                        /\ line' = line + 1
                        /\ bs' = Tail(bs)
                        /\ UNCHANGED <<pages, pageIdx, num, pc, ret>>

\* a later page, line 0: the repeated column header
ScanPageHeader ==
    /\ pc = "scan" /\ bs # <<>> /\ pageIdx > 1 /\ line = 0
    /\ warnings' = IF ~HasPrefix(bs[1], ColumnPrefix)
                   THEN Warn("Unexpected line text", bs[1]) ELSE warnings
    /\ line' = line + 1
    /\ bs' = Tail(bs)
    /\ UNCHANGED <<pages, pageIdx, records, num, pc, ret>>

\* IngestLine going on to the next line at io.EOF instead of leaving the loop
IngestLineContinue(text) ==
    LET r == parseLine(text)
    IN  IF r.err = EOF
        THEN /\ line' = line + 1
             /\ bs' = Tail(bs)
             /\ UNCHANGED <<pageIdx, pc, records, ret>>
        ELSE IF r.err # NoErr
        THEN /\ pc' = "failed"
             /\ ret' = [num |-> num, records |-> <<>>, err |-> r.err]
             /\ UNCHANGED <<pageIdx, bs, line, records>>
        ELSE /\ records' = Append(records, r.parts)
             /\ line' = line + 1
             /\ bs' = Tail(bs)
             /\ UNCHANGED <<pageIdx, pc, ret>>

\* IngestLine passing over a line parseLine rejects
IngestLineSkipsBad(text) ==
    LET r == parseLine(text)
    IN  IF r.err = EOF
        THEN /\ pageIdx' = pageIdx + 1
             /\ pc' = "page"
             /\ UNCHANGED <<bs, line, records, ret>>
        ELSE IF r.err # NoErr
        THEN /\ line' = line + 1
             /\ bs' = Tail(bs)
             /\ UNCHANGED <<pageIdx, pc, records, ret>>
        ELSE /\ records' = Append(records, r.parts)
             /\ line' = line + 1
             /\ bs' = Tail(bs)
             /\ UNCHANGED <<pageIdx, pc, ret>>

\* IngestLine returning the table at io.EOF instead of leaving the page's loop
IngestLineEndsTable(text) ==
    LET r == parseLine(text)
    IN  IF r.err = EOF
        THEN /\ pc' = "done"
             /\ ret' = [num |-> num, records |-> records, err |-> NoErr]
             /\ UNCHANGED <<pageIdx, bs, line, records>>
        ELSE IF r.err # NoErr
        THEN /\ pc' = "failed"
             /\ ret' = [num |-> num, records |-> <<>>, err |-> r.err]
             /\ UNCHANGED <<pageIdx, bs, line, records>>
        ELSE /\ records' = Append(records, r.parts)
             /\ line' = line + 1
             /\ bs' = Tail(bs)
             /\ UNCHANGED <<pageIdx, pc, ret>>

\* parts, err := parseLine(text): break on io.EOF, return on any other
\* error, append otherwise
IngestLine(text) ==
    LET r == parseLine(text)
    IN  IF r.err = EOF
        THEN /\ pageIdx' = pageIdx + 1
             /\ pc' = "page"
             /\ UNCHANGED <<bs, line, records, ret>>
        ELSE IF r.err # NoErr
        THEN /\ pc' = "failed"
             /\ ret' = [num |-> num, records |-> <<>>, err |-> r.err]
             /\ UNCHANGED <<pageIdx, bs, line, records>>
        ELSE /\ records' = Append(records, r.parts)
             /\ line' = line + 1
             /\ bs' = Tail(bs)
             /\ UNCHANGED <<pageIdx, pc, ret>>

\* page 1, from line 3 on
ScanRecordFirst ==
    /\ pc = "scan" /\ bs # <<>> /\ pageIdx = 1 /\ line >= 3
    /\ IngestLine(bs[1])
    /\ UNCHANGED <<pages, num, warnings>>

\* a later page, from line 1 on
ScanRecordLater ==
    /\ pc = "scan" /\ bs # <<>> /\ pageIdx > 1 /\ line >= 1
    /\ IngestLine(bs[1])
    /\ UNCHANGED <<pages, num, warnings>>

\* return num, records, nil
ReturnTable ==
    /\ pc = "page"
    /\ pageIdx > Len(pages)
    /\ pc' = "done"
    /\ ret' = [num |-> num, records |-> records, err |-> NoErr]
    /\ UNCHANGED <<pages, pageIdx, bs, line, records, num, warnings>>

----------------------------------------------------------------------------
(* Position classifier *)

\* a whole number of PDF units in the fixed-point unit of the model
Units(whole) == whole * 200

\* 28, 133.71, 359.24, 479.05, 528.38, 655.88, 685.78, 722.22
positions == <<5600, 26742, 71848, 95810, 105676, 131176, 137156, 144444>>

NoPanic == "none"

\* positionLoop keeping a coordinate at the midpoint in the lower column
RECURSIVE positionLoopInclusive(_, _)
positionLoopInclusive(pos, i) ==
    IF i >= Len(positions) - 1 THEN Len(positions) - 1
    ELSE LET halfway == positions[i + 1] + (positions[i + 2] - positions[i + 1]) \div 2
         IN  IF pos <= halfway THEN i ELSE positionLoopInclusive(pos, i + 1)

\* the for loop of findPositionIdx, from index i (0-based) on
RECURSIVE positionLoop(_, _)
positionLoop(pos, i) ==
    IF i >= Len(positions) - 1 THEN Len(positions) - 1
    ELSE LET halfway == positions[i + 1] + (positions[i + 2] - positions[i + 1]) \div 2
         IN  IF pos < halfway THEN i ELSE positionLoop(pos, i + 1)

\* findPositionIdx refusing the two ends of the range
findPositionIdxOpenRange(pos) ==
    IF pos <= 0 \/ pos >= Units(1100) THEN [panic |-> "invalid pos", val |-> 0]
    ELSE IF pos <= positions[1] THEN [panic |-> NoPanic, val |-> 0]
    ELSE IF pos >= positions[Len(positions)]
    THEN [panic |-> NoPanic, val |-> Len(positions) - 1]
    ELSE [panic |-> NoPanic, val |-> positionLoop(pos, 0)]

\* findPositionIdx clamping a coordinate outside the range to the end columns
findPositionIdxClamped(pos) ==
    IF pos <= positions[1] THEN [panic |-> NoPanic, val |-> 0]
    ELSE IF pos >= positions[Len(positions)]
    THEN [panic |-> NoPanic, val |-> Len(positions) - 1]
    ELSE [panic |-> NoPanic, val |-> positionLoop(pos, 0)]

findPositionIdx(pos) ==
    IF pos < 0 \/ pos > Units(1100) THEN [panic |-> "invalid pos", val |-> 0]
    ELSE IF pos <= positions[1] THEN [panic |-> NoPanic, val |-> 0]
    ELSE IF pos >= positions[Len(positions)]
    THEN [panic |-> NoPanic, val |-> Len(positions) - 1]
    ELSE [panic |-> NoPanic, val |-> positionLoop(pos, 0)]

\* howManyTabs taking every move for one column
howManyTabsOne(prevPos, curPos) ==
    IF prevPos >= curPos THEN [panic |-> "not expected", val |-> 0]
    ELSE LET idx  == findPositionIdx(prevPos)
             idx2 == findPositionIdx(curPos)
         IN  IF idx.panic # NoPanic THEN idx
             ELSE IF idx2.panic # NoPanic THEN idx2
             ELSE [panic |-> NoPanic, val |-> IF idx2.val > idx.val THEN 1 ELSE 0]

\* howManyTabs subtracting the wrong way round
howManyTabsSwapped(prevPos, curPos) ==
    IF prevPos >= curPos THEN [panic |-> "not expected", val |-> 0]
    ELSE LET idx  == findPositionIdx(prevPos)
             idx2 == findPositionIdx(curPos)
         IN  IF idx.panic # NoPanic THEN idx
             ELSE IF idx2.panic # NoPanic THEN idx2
             ELSE [panic |-> NoPanic, val |-> idx.val - idx2.val]

howManyTabs(prevPos, curPos) ==
    IF prevPos >= curPos THEN [panic |-> "not expected", val |-> 0]
    ELSE LET idx  == findPositionIdx(prevPos)
             idx2 == findPositionIdx(curPos)
         IN  IF idx.panic # NoPanic THEN idx
             ELSE IF idx2.panic # NoPanic THEN idx2
             ELSE [panic |-> NoPanic, val |-> idx2.val - idx.val]

----------------------------------------------------------------------------
(* Text reconstructor: extractText, one action per operator of the loop *)

\* content-stream objects: the type t and, by type, the number n, the
\* characters s or the elements a
PdfFloat(v) == [t |-> "float", n |-> v, s |-> <<>>, a |-> <<>>]
PdfInteger(v) == [t |-> "int", n |-> v, s |-> <<>>, a |-> <<>>]
PdfString(str) == [t |-> "string", n |-> 0, s |-> str, a |-> <<>>]
PdfArray(elems) == [t |-> "array", n |-> 0, s |-> <<>>, a |-> elems]
PdfName(str) == [t |-> "name", n |-> 0, s |-> str, a |-> <<>>]

Operation(operand, params) == [Operand |-> operand, Params |-> params]
NoOp == Operation("", <<>>)

IsNumber(obj) == obj.t \in {"float", "int"}
\* float64(*xint) for an integer object
Float(obj) == IF obj.t = "float" THEN obj.n ELSE Units(obj.n)

\* xPos, yPos := float64(-1), float64(-1)
Unset == Units(-1)

NoTextErr == "nil"
NotArray == "Invalid parameter type, no array"
NotString == "Invalid parameter type, not string"

\* what every iteration does: the loop takes the next operation
Take(o) ==
    /\ tpc = "loop"
    /\ op' = o
    /\ opIdx' = opIdx + 1
    /\ UNCHANGED stream

\* a BT that flips the text-block flag
ExecBTToggles(o) ==
    /\ o.Operand = "BT"
    /\ Take(o)
    /\ inText' = ~inText
    /\ UNCHANGED <<xPos, yPos, txt, prevX, prevY, tpc, tret>>

ExecBT(o) ==
    /\ o.Operand = "BT"
    /\ Take(o)
    /\ inText' = TRUE
    /\ UNCHANGED <<xPos, yPos, txt, prevX, prevY, tpc, tret>>

ExecET(o) ==
    /\ o.Operand = "ET"
    /\ Take(o)
    /\ inText' = FALSE
    /\ UNCHANGED <<xPos, yPos, txt, prevX, prevY, tpc, tret>>

\* a Tm with 6 operands, the last two of them numbers
WellFormedTm(o) ==
    /\ o.Operand = "Tm"
    /\ Len(o.Params) = 6
    /\ IsNumber(o.Params[5]) /\ IsNumber(o.Params[6])

\* MoveCursor leaving the horizontal cursor where it was on a new row
MoveCursorKeepsX(x, y) ==
    IF yPos # Unset /\ yPos > y
    THEN /\ txt' = txt \o <<NL>>
         /\ yPos' = y
         /\ UNCHANGED <<xPos, tpc, tret>>
    ELSE /\ yPos' = IF yPos = Unset THEN y ELSE yPos
         /\ IF xPos = Unset
            THEN /\ xPos' = x
                 /\ UNCHANGED <<txt, tpc, tret>>
            ELSE IF xPos < x
            THEN LET numTabs == howManyTabs(xPos, x)
                 IN  IF numTabs.panic # NoPanic
                     THEN /\ tpc' = "panicked"
                          /\ tret' = [txt |-> <<>>, err |-> numTabs.panic]
                          /\ UNCHANGED <<xPos, txt>>
                     ELSE /\ txt' = txt \o Repeat(TAB, numTabs.val)
                          /\ xPos' = x
                          /\ UNCHANGED <<tpc, tret>>
            ELSE UNCHANGED <<xPos, txt, tpc, tret>>

\* MoveCursor that also counts tabs for a Tm at the cursor's own offset
MoveCursorCountsOnEqual(x, y) ==
    IF yPos # Unset /\ yPos > y
    THEN /\ txt' = txt \o <<NL>>
         /\ xPos' = x
         /\ yPos' = y
         /\ UNCHANGED <<tpc, tret>>
    ELSE /\ yPos' = IF yPos = Unset THEN y ELSE yPos
         /\ IF xPos = Unset
            THEN /\ xPos' = x
                 /\ UNCHANGED <<txt, tpc, tret>>
            ELSE IF xPos <= x
            THEN LET numTabs == howManyTabs(xPos, x)
                 IN  IF numTabs.panic # NoPanic
                     THEN /\ tpc' = "panicked"
                          /\ tret' = [txt |-> <<>>, err |-> numTabs.panic]
                          /\ UNCHANGED <<xPos, txt>>
                     ELSE /\ txt' = txt \o Repeat(TAB, numTabs.val)
                          /\ xPos' = x
                          /\ UNCHANGED <<tpc, tret>>
            ELSE UNCHANGED <<xPos, txt, tpc, tret>>

\* the cursor update of a well-formed Tm at (x, y), lines 158-172
MoveCursor(x, y) ==
    IF yPos # Unset /\ yPos > y
    THEN /\ txt' = txt \o <<NL>>
         /\ xPos' = x
         /\ yPos' = y
         /\ UNCHANGED <<tpc, tret>>
    ELSE /\ yPos' = IF yPos = Unset THEN y ELSE yPos
         /\ IF xPos = Unset
            THEN /\ xPos' = x
                 /\ UNCHANGED <<txt, tpc, tret>>
            ELSE IF xPos < x
            THEN LET numTabs == howManyTabs(xPos, x)
                 IN  IF numTabs.panic # NoPanic
                     THEN /\ tpc' = "panicked"
                          /\ tret' = [txt |-> <<>>, err |-> numTabs.panic]
                          /\ UNCHANGED <<xPos, txt>>
                     ELSE /\ txt' = txt \o Repeat(TAB, numTabs.val)
                          /\ xPos' = x
                          /\ UNCHANGED <<tpc, tret>>
            ELSE UNCHANGED <<xPos, txt, tpc, tret>>

\* a Tm whose malformed operands end the page with an error
ExecTmRejectsMalformed(o) ==
    /\ o.Operand = "Tm"
    /\ Take(o)
    /\ IF ~WellFormedTm(o)
       THEN /\ tpc' = "failed"
            /\ tret' = [txt |-> <<>>, err |-> NotArray]
            /\ UNCHANGED <<xPos, yPos, txt, prevX, prevY>>
       ELSE /\ MoveCursor(Float(o.Params[5]), Float(o.Params[6]))
            /\ prevX' = <<Float(o.Params[5])>>
            /\ prevY' = <<Float(o.Params[6])>>
    /\ UNCHANGED inText

ExecTm(o) ==
    /\ o.Operand = "Tm"
    /\ Take(o)
    /\ IF ~WellFormedTm(o)
       THEN UNCHANGED <<xPos, yPos, txt, prevX, prevY, tpc, tret>>
       ELSE /\ MoveCursor(Float(o.Params[5]), Float(o.Params[6]))
            /\ prevX' = <<Float(o.Params[5])>>
            /\ prevY' = <<Float(o.Params[6])>>
    /\ UNCHANGED inText

\* a line advance that counts only inside a text block
ExecNextLineInText(o) ==
    /\ o.Operand \in {"Td", "TD", "T*"}
    /\ Take(o)
    /\ txt' = IF inText THEN txt \o <<NL>> ELSE txt
    /\ UNCHANGED <<xPos, yPos, inText, prevX, prevY, tpc, tret>>

\* Td, TD, T*: move to the next line
ExecNextLine(o) ==
    /\ o.Operand \in {"Td", "TD", "T*"}
    /\ Take(o)
    /\ txt' = txt \o <<NL>>
    /\ UNCHANGED <<xPos, yPos, inText, prevX, prevY, tpc, tret>>

\* shownElement with the threshold itself taken for a gap
shownElementInclusive(obj) ==
    IF obj.t = "string" THEN obj.s
    ELSE IF obj.t = "float" THEN (IF obj.n <= Units(-100) THEN <<SPACE>> ELSE <<>>)
    ELSE IF obj.t = "int" THEN (IF obj.n <= -100 THEN <<SPACE>> ELSE <<>>)
    ELSE <<>>

\* what one element of a TJ array adds to the text
shownElement(obj) ==
    IF obj.t = "string" THEN obj.s
    ELSE IF obj.t = "float" THEN (IF obj.n < Units(-100) THEN <<SPACE>> ELSE <<>>)
    ELSE IF obj.t = "int" THEN (IF obj.n < -100 THEN <<SPACE>> ELSE <<>>)
    ELSE <<>>

\* the loop over the array of a TJ, lines 187-200
RECURSIVE showArray(_)
showArray(elems) ==
    IF elems = <<>> THEN <<>>
    ELSE shownElement(elems[1]) \o showArray(Tail(elems))

ExecTJ(o) ==
    /\ o.Operand = "TJ"
    /\ Take(o)
    /\ IF ~inText \/ Len(o.Params) < 1
       THEN UNCHANGED <<txt, tpc, tret>>
       ELSE IF o.Params[1].t # "array"
       THEN /\ tpc' = "failed"
            /\ tret' = [txt |-> <<>>, err |-> NotArray]
            /\ UNCHANGED txt
       ELSE /\ txt' = txt \o showArray(o.Params[1].a)
            /\ UNCHANGED <<tpc, tret>>
    /\ UNCHANGED <<xPos, yPos, inText, prevX, prevY>>

ExecTj(o) ==
    /\ o.Operand = "Tj"
    /\ Take(o)
    /\ IF ~inText \/ Len(o.Params) < 1
       THEN UNCHANGED <<txt, tpc, tret>>
       ELSE IF o.Params[1].t # "string"
       THEN /\ tpc' = "failed"
            /\ tret' = [txt |-> <<>>, err |-> NotString]
            /\ UNCHANGED txt
       ELSE /\ txt' = txt \o o.Params[1].s
            /\ UNCHANGED <<tpc, tret>>
    /\ UNCHANGED <<xPos, yPos, inText, prevX, prevY>>

\* any other operator
ExecOther(o) ==
    /\ o.Operand \notin {"BT", "ET", "Tm", "Td", "TD", "T*", "TJ", "Tj"}
    /\ Take(o)
    /\ UNCHANGED <<xPos, yPos, inText, txt, prevX, prevY, tpc, tret>>

\* return txt, nil
ReturnText ==
    /\ tpc = "loop"
    /\ tpc' = "returned"
    /\ tret' = [txt |-> txt, err |-> NoTextErr]
    /\ UNCHANGED <<stream, opIdx, op, xPos, yPos, inText, txt, prevX, prevY>>

----------------------------------------------------------------------------
(* The page texts getCSV is run on *)

RECURSIVE JoinWith(_, _)
JoinWith(parts, sep) ==
    IF parts = <<>> THEN <<>>
    ELSE IF Len(parts) = 1 THEN parts[1]
    ELSE parts[1] \o sep \o JoinWith(Tail(parts), sep)

PageOf2Of3 == <<"P", "a", "g", "e", " ", "2", " ", "o", "f", " ", "3">>
CardNumberText == <<"1", "2", "3", "4", "5", "6", "7", "8", "9", "0">>

\* an ordinary record
Rec1 == JoinWith(<< <<"1">>, <<"b">>, <<"c">>, <<"d">>, <<"e">>, <<"f">>, <<"g">>, <<"h">> >>, <<TAB>>)
\* "", "", "", "X", "Y", "Z", "W", "Page 2 of 3"
ScenarioBLine == JoinWith(<< <<>>, <<>>, <<>>, <<"X">>, <<"Y">>, <<"Z">>, <<"W">>, PageOf2Of3 >>, <<TAB>>)
\* a page-number line: fields 1, 2 and 3 empty
FooterLine == JoinWith(<< <<"D">>, <<>>, <<>>, <<>>, <<"Y">>, <<"Z">>, <<"W">>, PageOf2Of3 >>, <<TAB>>)
\* the trailing boilerplate, one field
DisclaimerLine == Disclaimer \o <<",">>
\* two fields
ShortLine == JoinWith(<< <<"a">>, <<"b">> >>, <<TAB>>)
\* nine fields, the disclaimer in field 0
LongLine == JoinWith(<< Disclaimer, <<"b">>, <<"c">>, <<"d">>, <<"e">>, <<"f">>, <<"g">>, <<"h">>, <<"i">> >>, <<TAB>>)
ColumnLine == ColumnPrefix \o <<TAB, "P">>

BodyPool == {Rec1, ScenarioBLine, FooterLine, DisclaimerLine, ShortLine, LongLine}

CardOk == CardPrefix \o CardNumberText
CardPool ==
    { CardOk,
      CardPrefix,
      CardPrefix \o <<"1", " ", "2">>,
      CardPrefix \o <<"1", "x">>,
      <<"C", "A", "R", "D">>,
      <<"C", "A", "R", "E", " ", "7">> }

MaxPages == 2
MaxBody == 3

PageBreak == <<"\f">>

\* the lines of a document, cut into pages at the page breaks
RECURSIVE CutPages(_)
CutPages(syms) ==
    IF \A k \in 1..Len(syms) : syms[k] # PageBreak
    THEN <<syms>>
    ELSE LET k == CHOOSE j \in 1..Len(syms) :
                      syms[j] = PageBreak /\ \A m \in 1..(j - 1) : syms[m] # PageBreak
         IN  <<SubSeq(syms, 1, k - 1)>> \o CutPages(SubSeq(syms, k + 1, Len(syms)))

Count(syms, isBreak) ==
    Cardinality({k \in 1..Len(syms) : (syms[k] = PageBreak) = isBreak})

\* up to MaxPages pages with the expected header lines and, in all, up to
\* MaxBody lines after them, every line drawn from BodyPool
BodyDocuments ==
    LET Syms == BodyPool \cup {PageBreak}
        Seqs == UNION {[1..k -> Syms] : k \in 0..(MaxBody + MaxPages - 1)}
        Good == {s \in Seqs : Count(s, TRUE) < MaxPages /\ Count(s, FALSE) <= MaxBody}
        Page(p, body) == IF p = 1 THEN <<TitleText, CardOk, ColumnLine>> \o body
                         ELSE <<ColumnLine>> \o body
    IN  { LET cut == CutPages(s)
          IN  [p \in 1..Len(cut) |-> JoinWith(Page(p, cut[p]), <<NL>>)] : s \in Good }

\* one page whose header lines vary, cut short or followed by a record
HeaderDocuments ==
    LET Full == { <<l0, l1, l2>> : l0 \in {TitleText, Rec1}, l1 \in CardPool,
                                   l2 \in {ColumnLine, Rec1} }
        Cut  == { SubSeq(h, 1, k) : h \in Full, k \in 0..2 }
        More == { h \o <<Rec1>> : h \in Full }
    IN  { <<JoinWith(ls, <<NL>>)>> : ls \in Full \cup Cut \cup More }

\* two pages, the second page's first line varying; and \r\n line ends
OtherDocuments ==
    LET First == <<TitleText, CardOk, ColumnLine, Rec1>>
    IN  { << JoinWith(First, <<NL>>), JoinWith(<<h>> \o b, <<NL>>) >> :
            h \in {Rec1, ShortLine, FooterLine}, b \in {<<>>, <<ScenarioBLine>>} }
        \cup { << JoinWith(First, <<CR, NL>>) \o <<CR, NL>> >>,
               << JoinWith(First, <<NL>>) \o <<NL, NL>> >>,
               <<>> }

Documents == BodyDocuments \cup HeaderDocuments \cup OtherDocuments

TextIdle ==
    /\ stream = <<>> /\ opIdx = 0 /\ op = NoOp /\ xPos = Unset /\ yPos = Unset
    /\ inText = FALSE /\ txt = <<>> /\ prevX = <<>> /\ prevY = <<>> /\ tpc = "idle"
    /\ tret = [txt |-> <<>>, err |-> NoTextErr]

PosIdle ==
    /\ fromPos = 0 /\ toPos = 0 /\ ppc = "idle"
    /\ posRet = [panic |-> NoPanic, val |-> 0]

\* TransactionData{} and the error ParsePDF returns with it
NoData(err) == [AccountNumber |-> 0, Transactions |-> <<>>, err |-> err]

\* what the variables of DownloadPDFs hold before the call
NoResponse == [err |-> FALSE, status |-> 0, csrf |-> "none", broken |-> FALSE,
               cardsErr |-> FALSE, cards |-> <<>>, ctype |-> "none"]

DownloadIdle ==
    /\ dryRun = FALSE /\ loggedIn = FALSE /\ mu = FALSE
    /\ resp = NoResponse /\ cards = <<>> /\ csrfToken = "none" /\ cardIdx = 0
    /\ requests = <<>> /\ files = <<>> /\ printed = <<>>
    /\ dpc = "idle" /\ dret = "nil"

\* before parseLine is called
LineIdle == lineIn = <<>> /\ lpc = "idle" /\ lineOut = [parts |-> <<>>, err |-> NoErr]

\* before any goroutine calls cards()
CallsIdle == cpc = <<>> /\ cresp = <<>> /\ cret = <<>> /\ holder = 0

NoSolo == [xpc |-> "idle", out |-> NoData(NoErr)]

\* the local variables of a call of ParsePDF that has not started
FreshCall(d) ==
    [ doc |-> d, pageNo |-> 0, xpc |-> "idle", out |-> NoData(NoErr),
      pages |-> <<>>, pageIdx |-> 0, bs |-> <<>>, line |-> 0, records |-> <<>>,
      num |-> 0, pc |-> "idle", ret |-> [num |-> 0, records |-> <<>>, err |-> NoErr],
      stream |-> <<>>, opIdx |-> 0, op |-> NoOp, xPos |-> Unset, yPos |-> Unset,
      inText |-> FALSE, txt |-> <<>>, prevX |-> <<>>, prevY |-> <<>>, tpc |-> "idle",
      tret |-> [txt |-> <<>>, err |-> NoTextErr] ]

ParseIdle ==
    /\ doc = <<>> /\ pageNo = 0 /\ xpc = "idle" /\ out = NoData(NoErr)
    /\ run = 1 /\ first = NoData(NoErr)
    /\ docs = <<>> /\ cur = 0 /\ parked = FreshCall(<<>>)
    /\ soloOf = 0 /\ solo = NoSolo

InitCSV ==
    /\ PosIdle /\ ParseIdle /\ DownloadIdle /\ LineIdle /\ CallsIdle
    /\ pages \in Documents
    /\ pageIdx = 0 /\ bs = <<>> /\ line = 0 /\ records = <<>> /\ num = 0
    /\ warnings = <<>> /\ pc = "idle"
    /\ ret = [num |-> 0, records |-> <<>>, err |-> NoErr]
    /\ TextIdle

NextCSV ==
    \/ (CallGetCSV /\ UNCHANGED notCSV)
    \/ (OpenPage /\ UNCHANGED notCSV)
    \/ (EndOfPage /\ UNCHANGED notCSV)
    \/ (ScanTitle /\ UNCHANGED notCSV)
    \/ (ScanCard /\ UNCHANGED notCSV)
    \/ (ScanColumns /\ UNCHANGED notCSV)
    \/ (ScanPageHeader /\ UNCHANGED notCSV)
    \/ (ScanRecordFirst /\ UNCHANGED notCSV)
    \/ (ScanRecordLater /\ UNCHANGED notCSV)
    \/ (ReturnTable /\ UNCHANGED notCSV)

SpecCSV == InitCSV /\ [][NextCSV]_vars

----------------------------------------------------------------------------
(* The operations extractText is run on *)

CSVIdle ==
    /\ pages = <<>> /\ pageIdx = 0 /\ bs = <<>> /\ line = 0 /\ records = <<>>
    /\ num = 0 /\ warnings = <<>> /\ pc = "idle"
    /\ ret = [num |-> 0, records |-> <<>>, err |-> NoErr]

\* the state after lines 110-116
TextStart ==
    /\ opIdx = 0 /\ op = NoOp /\ xPos = Unset /\ yPos = Unset
    /\ inText = FALSE /\ txt = <<>> /\ prevX = <<>> /\ prevY = <<>> /\ tpc = "loop"
    /\ tret = [txt |-> <<>>, err |-> NoTextErr]

Identity == <<PdfInteger(1), PdfInteger(0), PdfInteger(0), PdfInteger(1)>>
TmAt(x, y) == Operation("Tm", Identity \o <<PdfFloat(x), PdfFloat(y)>>)
TjOf(s) == Operation("Tj", <<PdfString(s)>>)
TJOf(elems) == Operation("TJ", <<PdfArray(elems)>>)
BT == Operation("BT", <<>>)
ET == Operation("ET", <<>>)

\* -1, 28, the midpoint of columns 0 and 1, 133.71, 722.22, just over 1100
XPool == {Units(-1), 5600, 16171, 26742, 144444, Units(1100) + 1}
\* vertical offsets are page coordinates, measured from the bottom of the page
YPool == {Units(700), Units(705), Units(710)}

TmOps ==
    { TmAt(x, y) : x \in XPool, y \in YPool }
    \cup { Operation("Tm", Identity \o <<PdfInteger(28), PdfInteger(700)>>),
           Operation("Tm", Identity \o <<PdfFloat(5600)>>),
           Operation("Tm", Identity \o <<PdfName(<<"n">>), PdfFloat(Units(700))>>),
           Operation("Tm", Identity \o <<PdfFloat(5600), PdfString(<<"a">>)>>) }

ShowOps ==
    { TjOf(<<"a">>),
      Operation("Tj", <<PdfInteger(1)>>),
      Operation("Tj", <<>>),
      TJOf(<<PdfString(<<"a">>), PdfInteger(-150), PdfString(<<"b">>)>>),
      TJOf(<<PdfString(<<"a">>), PdfName(<<"n">>)>>),
      Operation("TJ", <<PdfString(<<"a">>)>>),
      Operation("TJ", <<>>) }

TextOps ==
    TmOps \cup ShowOps
    \cup { BT, ET, Operation("Td", <<PdfInteger(0), PdfInteger(-12)>>),
           Operation("TD", <<PdfInteger(0), PdfInteger(-12)>>),
           Operation("T*", <<>>),
           Operation("Tf", <<PdfName(<<"F">>), PdfInteger(9)>>) }

MaxOps == 4

\* any operations, up to MaxOps of them, the stream ending anywhere
InitText == CSVIdle /\ PosIdle /\ ParseIdle /\ DownloadIdle /\ LineIdle /\ CallsIdle /\ TextStart /\ stream = <<>>

NextText ==
    \/ \E o \in TextOps : opIdx < MaxOps /\ ExecBT(o) /\ UNCHANGED notText
    \/ \E o \in TextOps : opIdx < MaxOps /\ ExecET(o) /\ UNCHANGED notText
    \/ \E o \in TextOps : opIdx < MaxOps /\ ExecTm(o) /\ UNCHANGED notText
    \/ \E o \in TextOps : opIdx < MaxOps /\ ExecNextLine(o) /\ UNCHANGED notText
    \/ \E o \in TextOps : opIdx < MaxOps /\ ExecTJ(o) /\ UNCHANGED notText
    \/ \E o \in TextOps : opIdx < MaxOps /\ ExecTj(o) /\ UNCHANGED notText
    \/ \E o \in TextOps : opIdx < MaxOps /\ ExecOther(o) /\ UNCHANGED notText
    \/ (ReturnText /\ UNCHANGED notText)

SpecText == InitText /\ [][NextText]_vars

\* the members of a set of numbers, in increasing order
RECURSIVE Ascending(_)
Ascending(S) ==
    IF S = {} THEN <<>>
    ELSE LET least == CHOOSE a \in S : \A b \in S : a <= b
         IN  <<least>> \o Ascending(S \ {least})

Reverse(q) == [k \in 1..Len(q) |-> q[Len(q) + 1 - k]]

ColChars == <<"0", "1", "2", "3", "4", "5", "6", "7">>
\* the string drawn at x names the column of x
Label(x) == <<"c", ColChars[findPositionIdx(x).val + 1]>>

\* BT, then for every row its Tm/Tj pairs; row r is drawn at ys[r]
RECURSIVE RowOps(_, _)
RowOps(xs, y) ==
    IF xs = <<>> THEN <<>>
    ELSE <<TmAt(xs[1], y), TjOf(Label(xs[1]))>> \o RowOps(Tail(xs), y)

RECURSIVE RowsOps(_, _)
RowsOps(rows, ys) ==
    IF rows = <<>> THEN <<>>
    ELSE RowOps(rows[1], ys[1]) \o RowsOps(Tail(rows), Tail(ys))

\* 0, the midpoint of columns 0 and 1, 359.24, 1100
RowX == {0, 16171, 71848, Units(1100)}
MaxRows == 2

\* rows of strictly increasing horizontal offsets at strictly decreasing
\* vertical offsets
RowStreams ==
    LET Rows == { Ascending(S) : S \in (SUBSET RowX) \ {{}} }
    IN  UNION { { <<BT>> \o RowsOps(rows, Reverse(Ascending(Y))) :
                    rows \in [1..Cardinality(Y) -> Rows] } :
                Y \in { Z \in SUBSET YPool : Cardinality(Z) \in 1..MaxRows } }

\* a string at each of the 8 column positions, on two rows
ScenarioAStreams ==
    { <<BT>> \o RowsOps(<<positions, positions>>, ys) :
        ys \in { <<y1, y2>> : y1 \in YPool, y2 \in YPool } \cap
               { q \in Seq(YPool) : Len(q) = 2 /\ q[2] < q[1] } }

ElemPool ==
    { PdfString(<<"a">>), PdfString(<<"b">>),
      PdfInteger(-150), PdfInteger(-101), PdfInteger(-100), PdfInteger(-50),
      PdfFloat(Units(-100) - 1), PdfFloat(Units(-100)), PdfName(<<"n">>) }
MaxArr == 3

\* a TJ of every array of up to MaxArr elements, inside a text block
ShowStreams ==
    { <<BT, TJOf(a)>> :
        a \in UNION { [1..k -> ElemPool] : k \in 0..MaxArr } }

OtherStreams ==
    { <<BT, TjOf(<<"a">>), ET, TJOf(<<PdfString(<<"b">>)>>), TjOf(<<"b">>)>>,
      <<BT, TjOf(<<"a">>), Operation("T*", <<>>), Operation("TJ", <<PdfString(<<"a">>)>>)>>,
      <<BT, Operation("Tf", <<PdfName(<<"F">>), PdfInteger(9)>>), Operation("TJ", <<>>),
        Operation("Tj", <<PdfInteger(1)>>)>>,
      <<>> }

\* every stream of up to MaxOps text-block and text-showing operators
BlockPool ==
    { BT, ET, TjOf(<<"a">>), TjOf(<<>>), Operation("Tj", <<PdfInteger(1)>>),
      Operation("TJ", <<PdfString(<<"a">>)>>) }
BlockStreams == UNION { [1..k -> BlockPool] : k \in 0..MaxOps }

Streams == RowStreams \cup ScenarioAStreams \cup ShowStreams \cup OtherStreams \cup BlockStreams

\* the operations of one page, given up front and processed to the end
InitStream == CSVIdle /\ PosIdle /\ ParseIdle /\ DownloadIdle /\ LineIdle /\ CallsIdle /\ TextStart /\ stream \in Streams

NextStream ==
    \/ (opIdx < Len(stream) /\ ExecBT(stream[opIdx + 1]) /\ UNCHANGED notText)
    \/ (opIdx < Len(stream) /\ ExecET(stream[opIdx + 1]) /\ UNCHANGED notText)
    \/ (opIdx < Len(stream) /\ ExecTm(stream[opIdx + 1]) /\ UNCHANGED notText)
    \/ (opIdx < Len(stream) /\ ExecNextLine(stream[opIdx + 1]) /\ UNCHANGED notText)
    \/ (opIdx < Len(stream) /\ ExecTJ(stream[opIdx + 1]) /\ UNCHANGED notText)
    \/ (opIdx < Len(stream) /\ ExecTj(stream[opIdx + 1]) /\ UNCHANGED notText)
    \/ (opIdx < Len(stream) /\ ExecOther(stream[opIdx + 1]) /\ UNCHANGED notText)
    \/ (opIdx = Len(stream) /\ ReturnText /\ UNCHANGED notText)

SpecStream == InitStream /\ [][NextStream]_vars

----------------------------------------------------------------------------
(* The coordinates findPositionIdx and howManyTabs are called with *)

\* how far around every boundary and midpoint the coordinates are taken
PosNear == 1

\* the midpoint of boundaries i and i+1 (0-based)
Midpoint(i) == (positions[i + 1] + positions[i + 2]) \div 2

Marks ==
    {positions[k] : k \in 1..Len(positions)}
    \cup {Midpoint(i) : i \in 0..(Len(positions) - 2)}
    \cup {0, Units(1100)}

\* every mark and its neighbours, and coordinates well outside the range
CoordPool ==
    {mark + d : mark \in Marks, d \in (0 - PosNear)..PosNear}
    \cup {Units(-100), Units(2000)}

notPos == <<csvVars, textVars, parseVars, twiceVars, concVars, dlVars, lineVars, callVars>>

InitPos ==
    /\ CSVIdle /\ TextIdle /\ ParseIdle /\ DownloadIdle /\ LineIdle /\ CallsIdle
    /\ fromPos \in CoordPool /\ toPos \in CoordPool
    /\ ppc = "idle"
    /\ posRet = [panic |-> NoPanic, val |-> 0]

CallFindPositionIdx ==
    /\ ppc = "idle"
    /\ posRet' = findPositionIdx(toPos)
    /\ ppc' = "classified"
    /\ UNCHANGED <<fromPos, toPos>>

CallHowManyTabs ==
    /\ ppc = "idle"
    /\ posRet' = howManyTabs(fromPos, toPos)
    /\ ppc' = "counted"
    /\ UNCHANGED <<fromPos, toPos>>

NextPos ==
    \/ (CallFindPositionIdx /\ UNCHANGED notPos)
    \/ (CallHowManyTabs /\ UNCHANGED notPos)

SpecPos == InitPos /\ [][NextPos]_vars

----------------------------------------------------------------------------
(* parseLine on its own *)

\* how many fields a line may have beyond the 8 of a record
MaxExtra == 1

HeadFields == { <<>>, <<"x">>, <<"*">> \o Disclaimer \o <<",">> }
BlankOrNot == { <<>>, <<"x">> }
TailFields == { <<>>, <<"x">>, <<"s", "e", "e", " ">> \o PageOf2Of3 }

\* lines of 1 to 8 + MaxExtra fields
LinePool ==
    { JoinWith(SubSeq(<<a, b, c, d, <<"m">>, <<"m">>, <<"m">>, e>>
                          \o [i \in 1..MaxExtra |-> <<"y">>], 1, k), <<TAB>>) :
        a \in HeadFields, b \in BlankOrNot, c \in BlankOrNot, d \in BlankOrNot,
        e \in TailFields, k \in 1..(Len(recordHeader) + MaxExtra) }

notLine == <<csvVars, textVars, posVars, parseVars, twiceVars, concVars, dlVars, callVars>>

InitLine ==
    /\ CSVIdle /\ TextIdle /\ PosIdle /\ ParseIdle /\ DownloadIdle /\ CallsIdle
    /\ lineIn \in LinePool
    /\ lpc = "idle"
    /\ lineOut = [parts |-> <<>>, err |-> NoErr]

CallParseLine ==
    /\ lpc = "idle"
    /\ lineOut' = parseLine(lineIn)
    /\ lpc' = "parsed"
    /\ UNCHANGED lineIn

NextLine == CallParseLine /\ UNCHANGED notLine

SpecLine == InitLine /\ [][NextLine]_vars

----------------------------------------------------------------------------
(* ParsePDF: extractPDFText over the pages of the document, then getCSV *)

\* the white space strings.TrimSpace cuts off
WhiteSpace == {SPACE, TAB, NL, CR, "\f"}

TrimSpace(s) ==
    LET keep == {k \in 1..Len(s) : s[k] \notin WhiteSpace}
    IN  IF keep = {} THEN <<>>
        ELSE SubSeq(s, CHOOSE k \in keep : \A j \in keep : k <= j,
                       CHOOSE k \in keep : \A j \in keep : k >= j)

\* the byte 0x80 and what the Windows-1252 decoder makes of it, the euro sign
Byte80 == "0x80"
Euro == "U+20AC"

\* decoder.String(txt): bytes of the 7-bit range stay what they are
DecodeWindows1252(s) == [k \in 1..Len(s) |-> IF s[k] = Byte80 THEN Euro ELSE s[k]]

TextErr(e) == [kind |-> e, text |-> <<>>]

\* pages := make([]string, numPages); i := 1
CallParsePDF ==
    /\ xpc = "idle"
    /\ pages' = [k \in 1..Len(doc) |-> <<>>]
    /\ pageNo' = 1
    /\ xpc' = "pages"
    /\ UNCHANGED <<doc, out>>
    /\ UNCHANGED <<pageIdx, bs, line, records, num, warnings, pc, ret>>
    /\ UNCHANGED textVars

\* extractText that goes on from the cursor the previous page left
CallExtractTextKeepsCursor ==
    /\ xpc = "pages"
    /\ pageNo <= Len(doc)
    /\ stream' = doc[pageNo]
    /\ opIdx' = 0 /\ op' = NoOp
    /\ inText' = FALSE /\ txt' = <<>> /\ prevX' = <<>> /\ prevY' = <<>>
    /\ tpc' = "loop"
    /\ xpc' = "text"
    /\ UNCHANGED <<xPos, yPos, tret, doc, pageNo, out>>
    /\ UNCHANGED csvVars

\* extractText(cstreamParser) for page i: lines 110-116
CallExtractText ==
    /\ xpc = "pages"
    /\ pageNo <= Len(doc)
    /\ stream' = doc[pageNo]
    /\ opIdx' = 0 /\ op' = NoOp
    /\ xPos' = Unset /\ yPos' = Unset
    /\ inText' = FALSE /\ txt' = <<>> /\ prevX' = <<>> /\ prevY' = <<>>
    /\ tpc' = "loop"
    /\ xpc' = "text"
    /\ UNCHANGED <<tret, doc, pageNo, out>>
    /\ UNCHANGED csvVars

\* one iteration of the loop of extractText
TextStep ==
    /\ xpc = "text"
    /\ opIdx < Len(stream)
    /\ UNCHANGED <<csvVars, parseVars>>

\* pages[i-1] = strings.TrimSpace(s)
StorePage ==
    /\ xpc = "text"
    /\ tpc = "returned"
    /\ pages' = [pages EXCEPT ![pageNo] = TrimSpace(DecodeWindows1252(tret.txt))]
    /\ pageNo' = pageNo + 1
    /\ xpc' = "pages"
    /\ tpc' = "idle"
    /\ UNCHANGED <<doc, out>>
    /\ UNCHANGED <<pageIdx, bs, line, records, num, warnings, pc, ret>>
    /\ UNCHANGED <<stream, opIdx, op, xPos, yPos, inText, txt, prevX, prevY, tret>>

\* extractText returned an error: extractPDFText and ParsePDF return it
ExtractFails ==
    /\ xpc = "text"
    /\ tpc = "failed"
    /\ out' = NoData(TextErr(tret.err))
    /\ xpc' = "returned"
    /\ UNCHANGED <<doc, pageNo>>
    /\ UNCHANGED <<csvVars, textVars>>

\* the panic of findPositionIdx or howManyTabs unwinds ParsePDF
ExtractPanics ==
    /\ xpc = "text"
    /\ tpc = "panicked"
    /\ out' = NoData(TextErr(tret.err))
    /\ xpc' = "panicked"
    /\ UNCHANGED <<doc, pageNo>>
    /\ UNCHANGED <<csvVars, textVars>>

\* accountNumber, records, err := getCSV(pages)
ParseCallsGetCSV ==
    /\ xpc = "pages"
    /\ pageNo > Len(doc)
    /\ CallGetCSV
    /\ xpc' = "csv"
    /\ UNCHANGED <<doc, pageNo, out>>
    /\ UNCHANGED textVars

\* one step of getCSV
CSVStep ==
    /\ xpc = "csv"
    /\ UNCHANGED <<textVars, parseVars>>

\* ParsePDF handing over what getCSV had read when it failed
ParseFailsWithPartialData ==
    /\ xpc = "csv"
    /\ pc = "failed"
    /\ out' = [AccountNumber |-> num, Transactions |-> records, err |-> ret.err]
    /\ xpc' = "returned"
    /\ UNCHANGED <<doc, pageNo>>
    /\ UNCHANGED <<csvVars, textVars>>

\* getCSV returned an error
ParseFails ==
    /\ xpc = "csv"
    /\ pc = "failed"
    /\ out' = NoData(ret.err)
    /\ xpc' = "returned"
    /\ UNCHANGED <<doc, pageNo>>
    /\ UNCHANGED <<csvVars, textVars>>

\* return TransactionData{AccountNumber: accountNumber, Transactions: records}, nil
ParseReturns ==
    /\ xpc = "csv"
    /\ pc = "done"
    /\ out' = [AccountNumber |-> ret.num, Transactions |-> ret.records, err |-> NoErr]
    /\ xpc' = "returned"
    /\ UNCHANGED <<doc, pageNo>>
    /\ UNCHANGED <<csvVars, textVars>>

notParse == <<posVars, twiceVars, concVars, dlVars, lineVars, callVars>>

ParseNext ==
    \/ (CallParsePDF /\ UNCHANGED notParse)
    \/ (CallExtractText /\ UNCHANGED notParse)
    \/ (TextStep /\ ExecBT(stream[opIdx + 1]) /\ UNCHANGED notParse)
    \/ (TextStep /\ ExecET(stream[opIdx + 1]) /\ UNCHANGED notParse)
    \/ (TextStep /\ ExecTm(stream[opIdx + 1]) /\ UNCHANGED notParse)
    \/ (TextStep /\ ExecNextLine(stream[opIdx + 1]) /\ UNCHANGED notParse)
    \/ (TextStep /\ ExecTJ(stream[opIdx + 1]) /\ UNCHANGED notParse)
    \/ (TextStep /\ ExecTj(stream[opIdx + 1]) /\ UNCHANGED notParse)
    \/ (TextStep /\ ExecOther(stream[opIdx + 1]) /\ UNCHANGED notParse)
    \/ (xpc = "text" /\ opIdx = Len(stream) /\ ReturnText
            /\ UNCHANGED <<csvVars, parseVars, notParse>>)
    \/ (StorePage /\ UNCHANGED notParse)
    \/ (ExtractFails /\ UNCHANGED notParse)
    \/ (ExtractPanics /\ UNCHANGED notParse)
    \/ (ParseCallsGetCSV /\ UNCHANGED notParse)
    \/ (CSVStep /\ OpenPage /\ UNCHANGED notParse)
    \/ (CSVStep /\ EndOfPage /\ UNCHANGED notParse)
    \/ (CSVStep /\ ScanTitle /\ UNCHANGED notParse)
    \/ (CSVStep /\ ScanCard /\ UNCHANGED notParse)
    \/ (CSVStep /\ ScanColumns /\ UNCHANGED notParse)
    \/ (CSVStep /\ ScanPageHeader /\ UNCHANGED notParse)
    \/ (CSVStep /\ ScanRecordFirst /\ UNCHANGED notParse)
    \/ (CSVStep /\ ScanRecordLater /\ UNCHANGED notParse)
    \/ (CSVStep /\ ReturnTable /\ UNCHANGED notParse)
    \/ (ParseFails /\ UNCHANGED notParse)
    \/ (ParseReturns /\ UNCHANGED notParse)

\* the operations that draw a line of cells, each cell a horizontal offset
\* and a string, at the vertical offset y
RECURSIVE CellOps(_, _)
CellOps(cells, y) ==
    IF cells = <<>> THEN <<>>
    ELSE <<TmAt(cells[1][1], y), TjOf(cells[1][2])>> \o CellOps(Tail(cells), y)

Font == Operation("Tf", <<PdfName(<<"F">>), PdfInteger(9)>>)
NextLineOp == Operation("T*", <<>>)

\* a string in each of the 8 columns, tagged
RecordCells(tag) == [k \in 1..Len(positions) |-> <<positions[k], <<tag, ColChars[k]>> >>]

\* "TRANSACTION TYPE", "LOCATION", "ROUTE" in the first three columns
ColumnCells ==
    LET names == Split(ColumnPrefix, TAB)
    IN  [k \in 1..Len(names) |-> <<positions[k], names[k]>>]

\* the first page: title, card number, column header, one record, the
\* disclaimer and a line that is drawn after it
FirstPage(tag, card) ==
    <<BT, Font>>
    \o CellOps(<< <<positions[1], TitleText>> >>, Units(710))
    \o <<NextLineOp>>
    \o <<TmAt(positions[1], Units(710)), TJOf(<<PdfString(CardPrefix), PdfInteger(-50), PdfString(card)>>)>>
    \o CellOps(ColumnCells, Units(700))
    \o CellOps(RecordCells(tag), Units(690))
    \o CellOps(<< <<positions[1], Disclaimer>> >>, Units(680))
    \o CellOps(<< <<positions[1], <<"x">> >> >>, Units(670))
    \o <<ET>>

\* a later page: column header and one record, drawn lower on the page than
\* the last line of a first page
LaterPage(tag) ==
    <<BT>> \o CellOps(ColumnCells, Units(660)) \o CellOps(RecordCells(tag), Units(650)) \o <<ET>>

\* a page whose only record has two fields
ShortPage ==
    <<BT>> \o CellOps(ColumnCells, Units(700))
    \o CellOps(<< <<positions[1], <<"a">> >>, <<positions[2], <<"b">> >> >>, Units(690))

\* a page whose Tj has no string
BrokenPage == <<BT, Operation("Tj", <<PdfInteger(1)>>)>>

\* a page that moves right to a horizontal offset above 1100
OffPage == <<BT, TmAt(positions[1], Units(700)), TjOf(<<"a">>), TmAt(Units(1100) + 1, Units(700))>>

ParseDocs ==
    { <<FirstPage("a", <<"1", "2">>)>>,
      <<FirstPage("b", <<"7">>), LaterPage(Byte80)>>,
      <<FirstPage("a", <<"3">>), ShortPage>>,
      <<LaterPage("c"), BrokenPage>>,
      <<OffPage>>,
      <<>> }

TwiceIdle == run = 1 /\ first = NoData(NoErr)
PairIdle ==
    /\ docs = <<>> /\ cur = 0 /\ parked = FreshCall(<<>>)
    /\ soloOf = 0 /\ solo = NoSolo

InitParse ==
    /\ CSVIdle /\ TextIdle /\ PosIdle /\ TwiceIdle /\ PairIdle /\ DownloadIdle /\ LineIdle /\ CallsIdle
    /\ doc \in ParseDocs
    /\ pageNo = 0 /\ xpc = "idle" /\ out = NoData(NoErr)

\* a row with a string in each of the first 7 columns and the empty string
\* in the last one
OpenEndedCells(tag) ==
    [k \in 1..Len(positions) |->
        <<positions[k], IF k = Len(positions) THEN <<>> ELSE <<tag, ColChars[k]>> >>]

\* a first page that ends with a record whose last column is empty
OpenEndedPage(card) ==
    <<BT>>
    \o CellOps(<< <<positions[1], TitleText>> >>, Units(710))
    \o CellOps(<< <<positions[1], CardPrefix \o card>> >>, Units(705))
    \o CellOps(ColumnCells, Units(700))
    \o CellOps(RecordCells("a"), Units(690))
    \o CellOps(OpenEndedCells("b"), Units(680))
    \o <<ET>>

\* a later page whose first line starts with an empty first column
OpenStartPage ==
    <<BT>>
    \o CellOps(<< <<positions[1], <<>> >>, <<positions[2], <<"T">> >> >>, Units(700))
    \o CellOps(RecordCells("c"), Units(690))
    \o <<ET>>

TrimDocs ==
    { <<OpenEndedPage(<<"4">>)>>,
      <<FirstPage("a", <<"5">>), OpenStartPage>> }

\* ParsePDF called once, on any of the documents
InitTrim ==
    /\ CSVIdle /\ TextIdle /\ PosIdle /\ TwiceIdle /\ PairIdle /\ DownloadIdle /\ LineIdle /\ CallsIdle
    /\ doc \in ParseDocs \cup TrimDocs
    /\ pageNo = 0 /\ xpc = "idle" /\ out = NoData(NoErr)

SpecTrim == InitTrim /\ [][ParseNext]_vars

\* the caller calls ParsePDF again, on the same document
ParseAgain ==
    /\ run = 1
    /\ xpc = "returned"
    /\ first' = out
    /\ run' = 2
    /\ xpc' = "idle" /\ pc' = "idle" /\ tpc' = "idle"
    /\ UNCHANGED <<doc, pageNo, out>>
    /\ UNCHANGED <<pages, pageIdx, bs, line, records, num, warnings, ret>>
    /\ UNCHANGED <<stream, opIdx, op, xPos, yPos, inText, txt, prevX, prevY, tret>>
    /\ UNCHANGED <<posVars, concVars, dlVars, lineVars, callVars>>

NextTwice ==
    \/ ParseNext
    \/ ParseAgain

SpecTwice == InitParse /\ [][NextTwice]_vars

\* the local variables of the call that is running
ThisCall ==
    [ doc |-> doc, pageNo |-> pageNo, xpc |-> xpc, out |-> out,
      pages |-> pages, pageIdx |-> pageIdx, bs |-> bs, line |-> line,
      records |-> records, num |-> num, pc |-> pc, ret |-> ret,
      stream |-> stream, opIdx |-> opIdx, op |-> op, xPos |-> xPos, yPos |-> yPos,
      inText |-> inText, txt |-> txt, prevX |-> prevX, prevY |-> prevY, tpc |-> tpc, tret |-> tret ]

\* one of the two calls is first run alone
InitPair ==
    /\ CSVIdle /\ TextIdle /\ PosIdle /\ TwiceIdle /\ DownloadIdle /\ LineIdle /\ CallsIdle
    /\ docs \in ParseDocs \X ParseDocs
    /\ soloOf \in {1, 2}
    /\ cur = 0
    /\ doc = docs[soloOf]
    /\ pageNo = 0 /\ xpc = "idle" /\ out = NoData(NoErr)
    /\ parked = FreshCall(<<>>)
    /\ solo = NoSolo

\* the two calls are started, each in its goroutine, on its own document
StartPair ==
    /\ cur = 0
    /\ xpc \in {"returned", "panicked"}
    /\ solo' = [xpc |-> xpc, out |-> out]
    /\ cur' = 1
    /\ doc' = docs[1]
    /\ xpc' = "idle" /\ pc' = "idle" /\ tpc' = "idle"
    /\ parked' = FreshCall(docs[2])
    /\ UNCHANGED <<pageNo, out, docs, soloOf>>
    /\ UNCHANGED <<pages, pageIdx, bs, line, records, num, warnings, ret>>
    /\ UNCHANGED <<stream, opIdx, op, xPos, yPos, inText, txt, prevX, prevY, tret>>
    /\ UNCHANGED <<posVars, twiceVars, dlVars, lineVars, callVars>>

\* Switch with the table under assembly held in one place for both calls
SwitchSharesRecords ==
    /\ cur \in {1, 2}
    /\ xpc # "panicked"
    /\ parked.xpc # "returned"
    /\ cur' = 3 - cur
    /\ parked' = ThisCall
    /\ doc' = parked.doc /\ pageNo' = parked.pageNo /\ xpc' = parked.xpc
    /\ out' = parked.out
    /\ pages' = parked.pages /\ pageIdx' = parked.pageIdx /\ bs' = parked.bs
    /\ line' = parked.line /\ records' = records /\ num' = parked.num
    /\ pc' = parked.pc /\ ret' = parked.ret
    /\ stream' = parked.stream /\ opIdx' = parked.opIdx /\ op' = parked.op
    /\ xPos' = parked.xPos /\ yPos' = parked.yPos /\ inText' = parked.inText
    /\ txt' = parked.txt /\ prevX' = parked.prevX /\ prevY' = parked.prevY /\ tpc' = parked.tpc
    /\ tret' = parked.tret
    /\ UNCHANGED <<warnings, docs, soloOf, solo>>
    /\ UNCHANGED <<posVars, twiceVars, dlVars, lineVars, callVars>>

\* the scheduler takes the running call off and puts the other on: every
\* local variable goes with its call, the log is the one thing both write;
\* a panic has ended the process
Switch ==
    /\ cur \in {1, 2}
    /\ xpc # "panicked"
    /\ parked.xpc # "returned"
    /\ cur' = 3 - cur
    /\ parked' = ThisCall
    /\ doc' = parked.doc /\ pageNo' = parked.pageNo /\ xpc' = parked.xpc
    /\ out' = parked.out
    /\ pages' = parked.pages /\ pageIdx' = parked.pageIdx /\ bs' = parked.bs
    /\ line' = parked.line /\ records' = parked.records /\ num' = parked.num
    /\ pc' = parked.pc /\ ret' = parked.ret
    /\ stream' = parked.stream /\ opIdx' = parked.opIdx /\ op' = parked.op
    /\ xPos' = parked.xPos /\ yPos' = parked.yPos /\ inText' = parked.inText
    /\ txt' = parked.txt /\ prevX' = parked.prevX /\ prevY' = parked.prevY /\ tpc' = parked.tpc
    /\ tret' = parked.tret
    /\ UNCHANGED <<warnings, docs, soloOf, solo>>
    /\ UNCHANGED <<posVars, twiceVars, dlVars, lineVars, callVars>>

NextPair ==
    \/ ParseNext
    \/ StartPair
    \/ Switch

SpecPair == InitPair /\ [][NextPair]_vars

----------------------------------------------------------------------------
(* Client.DownloadPDFs: the card list, the account page, then every card *)

MaxCards == 2

Card(k) == [SerialNumber |-> k, Nickname |-> <<"n">>]
\* what getCards may find on the dashboard
CardLists == { [k \in 1..n |-> Card(k)] : n \in 0..MaxCards }

Request(method, path, card) == [method |-> method, path |-> path, card |-> card]
LoginPath == "/ClipperWeb/login.html"
AccountPath == "/ClipperWeb/account.html"
LoginPostPath == "/ClipperWeb/account"
PdfPath == "/ClipperWeb/view/transactionHistory.pdf"

\* c.client.Do fails
Failed == [NoResponse EXCEPT !.err = TRUE]
Status(code) == [NoResponse EXCEPT !.status = code]
\* a page with a _csrf input
TokenPage == [Status(200) EXCEPT !.csrf = "t"]

\* what the server may answer to the GET of a page
PageResponses ==
    { Failed, Status(500), Status(200), TokenPage, [TokenPage EXCEPT !.broken = TRUE] }

\* what the server may answer where the body is read for the cards
CardResponses ==
    { Failed, Status(500), [Status(200) EXCEPT !.broken = TRUE],
      [Status(200) EXCEPT !.cardsErr = TRUE] }
    \cup { [Status(code) EXCEPT !.cards = list] : code \in {200, 302}, list \in CardLists }

\* what the server may answer to the POST for a card's report
PdfResponses ==
    { Failed, Status(500), [Status(200) EXCEPT !.ctype = "text/html"],
      [Status(200) EXCEPT !.ctype = "application/pdf", !.broken = TRUE],
      [Status(200) EXCEPT !.ctype = "application/pdf"] }

InitDownload ==
    /\ CSVIdle /\ TextIdle /\ PosIdle /\ ParseIdle /\ LineIdle /\ CallsIdle
    /\ dryRun \in BOOLEAN
    /\ loggedIn \in BOOLEAN
    /\ mu = FALSE
    /\ resp = NoResponse /\ cards = <<>> /\ csrfToken = "none" /\ cardIdx = 0
    /\ requests = <<>> /\ files = <<>> /\ printed = <<>>
    /\ dpc = "idle" /\ dret = "nil"

\* return err
ReturnErr(e) ==
    /\ dpc' = "returned"
    /\ dret' = e

CallDownloadPDFs ==
    /\ dpc = "idle"
    /\ dpc' = "lock"
    /\ UNCHANGED <<dryRun, loggedIn, mu, resp, cards, csrfToken, cardIdx, requests,
                   files, printed, dret>>

\* cards: c.mu.Lock(); if c.loggedIn { c.mu.Unlock() ... } else { c.login ... }
CardsLock ==
    /\ dpc = "lock"
    /\ mu = FALSE
    /\ IF loggedIn
       THEN /\ mu' = FALSE
            /\ dpc' = "dashboard"
       ELSE /\ mu' = TRUE
            /\ dpc' = "loginPage"
    /\ UNCHANGED <<dryRun, loggedIn, resp, cards, csrfToken, cardIdx, requests,
                   files, printed, dret>>

\* dashboard: GET account.html
Dashboard(r) ==
    /\ dpc = "dashboard"
    /\ requests' = Append(requests, Request("GET", AccountPath, 0))
    /\ IF r.err THEN ReturnErr("transport") /\ UNCHANGED resp
       ELSE IF r.status # 200 THEN ReturnErr("status") /\ UNCHANGED resp
       ELSE /\ resp' = r
            /\ dpc' = "readCards"
            /\ UNCHANGED dret
    /\ UNCHANGED <<dryRun, loggedIn, mu, cards, csrfToken, cardIdx, files, printed>>

\* login: GET login.html and the token on it; cards unlocks on an error
LoginPage(r) ==
    /\ dpc = "loginPage"
    /\ requests' = Append(requests, Request("GET", LoginPath, 0))
    /\ IF r.err THEN ReturnErr("transport") /\ mu' = FALSE
       ELSE IF r.status # 200 THEN ReturnErr("status") /\ mu' = FALSE
       ELSE IF r.csrf = "none" THEN ReturnErr("csrf") /\ mu' = FALSE
       ELSE IF r.broken THEN ReturnErr("body") /\ mu' = FALSE
       ELSE /\ dpc' = "loginPost"
            /\ UNCHANGED <<mu, dret>>
    /\ UNCHANGED <<dryRun, loggedIn, resp, cards, csrfToken, cardIdx, files, printed>>

\* login: POST the form; 200 and 302 are a login
LoginPost(r) ==
    /\ dpc = "loginPost"
    /\ requests' = Append(requests, Request("POST", LoginPostPath, 0))
    /\ mu' = FALSE
    /\ IF r.err THEN ReturnErr("transport") /\ UNCHANGED <<loggedIn, resp>>
       ELSE IF r.status \notin {200, 302}
       THEN ReturnErr("status") /\ UNCHANGED <<loggedIn, resp>>
       ELSE /\ loggedIn' = TRUE
            /\ resp' = r
            /\ dpc' = "readCards"
            /\ UNCHANGED dret
    /\ UNCHANGED <<dryRun, cards, csrfToken, cardIdx, files, printed>>

\* cards: ioutil.ReadAll, Close, getCards; DownloadPDFs returns its error
ReadCards ==
    /\ dpc = "readCards"
    /\ IF resp.broken THEN ReturnErr("body") /\ UNCHANGED cards
       ELSE IF resp.cardsErr THEN ReturnErr("cards") /\ UNCHANGED cards
       ELSE /\ cards' = resp.cards
            /\ dpc' = "accountPage"
            /\ UNCHANGED dret
    /\ UNCHANGED <<dryRun, loggedIn, mu, resp, csrfToken, cardIdx, requests, files,
                   printed>>

\* GET account.html for the token of the form
AccountPage(r) ==
    /\ dpc = "accountPage"
    /\ requests' = Append(requests, Request("GET", AccountPath, 0))
    /\ IF r.err THEN ReturnErr("transport") /\ UNCHANGED <<csrfToken, cardIdx>>
       ELSE IF r.status # 200 THEN ReturnErr("status") /\ UNCHANGED <<csrfToken, cardIdx>>
       ELSE IF r.csrf = "none" THEN ReturnErr("csrf") /\ UNCHANGED <<csrfToken, cardIdx>>
       ELSE IF r.broken THEN ReturnErr("body") /\ UNCHANGED <<csrfToken, cardIdx>>
       ELSE /\ csrfToken' = r.csrf
            /\ cardIdx' = 1
            /\ dpc' = "loop"
            /\ UNCHANGED dret
    /\ UNCHANGED <<dryRun, loggedIn, mu, resp, cards, files, printed>>

\* DryRunCard sending the request all the same
DryRunCardPosts ==
    /\ dpc = "loop"
    /\ cardIdx <= Len(cards)
    /\ dryRun
    /\ printed' = Append(printed, cards[cardIdx].SerialNumber)
    /\ requests' = Append(requests, Request("POST", PdfPath, cards[cardIdx].SerialNumber))
    /\ cardIdx' = cardIdx + 1
    /\ UNCHANGED <<dryRun, loggedIn, mu, resp, cards, csrfToken, files, dpc, dret>>

\* if dryRun { fmt.Printf("[DRY RUN] ..."); continue }
DryRunCard ==
    /\ dpc = "loop"
    /\ cardIdx <= Len(cards)
    /\ dryRun
    /\ printed' = Append(printed, cards[cardIdx].SerialNumber)
    /\ cardIdx' = cardIdx + 1
    /\ UNCHANGED <<dryRun, loggedIn, mu, resp, cards, csrfToken, requests, files,
                   dpc, dret>>

\* POST transactionHistory.pdf for the card and write the report to its file
DownloadCard(r, written) ==
    /\ dpc = "loop"
    /\ cardIdx <= Len(cards)
    /\ ~dryRun
    /\ requests' = Append(requests, Request("POST", PdfPath, cards[cardIdx].SerialNumber))
    /\ IF r.err THEN ReturnErr("transport") /\ UNCHANGED <<files, cardIdx>>
       ELSE IF r.status # 200 THEN ReturnErr("status") /\ UNCHANGED <<files, cardIdx>>
       ELSE IF r.ctype # "application/pdf"
       THEN ReturnErr("content-type") /\ UNCHANGED <<files, cardIdx>>
       ELSE IF r.broken THEN ReturnErr("body") /\ UNCHANGED <<files, cardIdx>>
       ELSE IF ~written THEN ReturnErr("write") /\ UNCHANGED <<files, cardIdx>>
       ELSE /\ files' = Append(files, cards[cardIdx].SerialNumber)
            /\ cardIdx' = cardIdx + 1
            /\ UNCHANGED <<dpc, dret>>
    /\ UNCHANGED <<dryRun, loggedIn, mu, resp, cards, csrfToken, printed>>

\* the range over cards is over: return nil
ReturnNil ==
    /\ dpc = "loop"
    /\ cardIdx > Len(cards)
    /\ dpc' = "returned"
    /\ dret' = "nil"
    /\ UNCHANGED <<dryRun, loggedIn, mu, resp, cards, csrfToken, cardIdx, requests,
                   files, printed>>

notDownload == <<csvVars, textVars, posVars, parseVars, twiceVars, concVars, lineVars, callVars>>

NextDownload ==
    \/ (CallDownloadPDFs /\ UNCHANGED notDownload)
    \/ (CardsLock /\ UNCHANGED notDownload)
    \/ \E r \in PageResponses : Dashboard(r) /\ UNCHANGED notDownload
    \/ \E r \in PageResponses : LoginPage(r) /\ UNCHANGED notDownload
    \/ \E r \in CardResponses : LoginPost(r) /\ UNCHANGED notDownload
    \/ (ReadCards /\ UNCHANGED notDownload)
    \/ \E r \in PageResponses : AccountPage(r) /\ UNCHANGED notDownload
    \/ (DryRunCard /\ UNCHANGED notDownload)
    \/ \E r \in PdfResponses, written \in BOOLEAN :
          DownloadCard(r, written) /\ UNCHANGED notDownload
    \/ (ReturnNil /\ UNCHANGED notDownload)

SpecDownload == InitDownload /\ [][NextDownload]_vars

----------------------------------------------------------------------------
(* What the table is expected to hold, read off the page texts *)

HeaderLines(p) == IF p = 1 THEN 3 ELSE 1

\* the lines of page p after its header lines
BodyOf(p) ==
    LET ls == ScanLines(pages[p])
    IN  SubSeq(ls, HeaderLines(p) + 1, Len(ls))

FieldCount(text) == Cardinality({k \in 1..Len(text) : text[k] = TAB}) + 1

IsSentinelLine(text) ==
    IsPageFooter(Split(text, TAB)) \/ IsDisclaimer(Split(text, TAB))

\* neither 8 fields nor a sentinel
IsBadLine(text) == FieldCount(text) # 8 /\ ~IsSentinelLine(text)

\* the lines of page p before its first sentinel line
BeforeSentinel(p) ==
    LET body == BodyOf(p)
        stop == {k \in 1..Len(body) : IsSentinelLine(body[k])}
        last == IF stop = {} THEN Len(body)
                ELSE (CHOOSE k \in stop : \A m \in stop : k <= m) - 1
    IN  SubSeq(body, 1, last)

RECURSIVE AcceptedUpTo(_)
AcceptedUpTo(p) ==
    IF p = 0 THEN <<>>
    ELSE AcceptedUpTo(p - 1) \o
         [k \in 1..Len(BeforeSentinel(p)) |-> Split(BeforeSentinel(p)[k], TAB)]

\* the scanner is about to hand this line to parseLine
Feeding(text) ==
    /\ pc = "scan" /\ bs # <<>> /\ bs[1] = text
    /\ line >= HeaderLines(pageIdx)

----------------------------------------------------------------------------
(* Claims about the record parser and the table assembler *)

\* C1: when getCSV returns without error, every row of the returned table,
\* the header row included, has exactly 8 fields.
C1_EveryRowHasEightFields ==
    pc = "done" =>
        \A k \in 1..Len(ret.records) : Len(ret.records[k]) = 8

C1_Witness ==
    /\ pc = "done" /\ Len(pages) = 2 /\ Len(ret.records) >= 3
    /\ \E p \in 1..Len(pages) : \E k \in 1..Len(BodyOf(p)) : IsSentinelLine(BodyOf(p)[k])

\* C2: on success the table is the header row followed by exactly the
\* accepted record lines, in page order and, within a page, in line order;
\* the header row is put in once, at index 0.
C2_HeaderThenAcceptedInOrder ==
    pc = "done" =>
        /\ ret.records = <<recordHeader>> \o AcceptedUpTo(Len(pages))
        /\ Len(ret.records) = 1 + Len(AcceptedUpTo(Len(pages)))

C2_Witness ==
    /\ pc = "done" /\ Len(pages) = 2
    /\ Len(BeforeSentinel(1)) >= 1 /\ Len(BeforeSentinel(2)) >= 1
    /\ BeforeSentinel(1)[1] # BeforeSentinel(2)[1]
    /\ Len(ret.records) = 4

\* C3: a line fed to the record parser that has not 8 fields and matches no
\* sentinel pattern makes parseLine return the invalid-line error carrying the
\* raw line, and getCSV returns that error and no table: the line is neither
\* skipped nor made into a record.
C3_BadLineIsFatal ==
    [][ (pc = "scan" /\ bs # <<>> /\ line >= HeaderLines(pageIdx) /\ IsBadLine(bs[1]))
        => /\ pc' = "failed"
           /\ ret' = [num |-> num, records |-> <<>>, err |-> InvalidLine(bs[1])]
           /\ records' = records ]_vars

C3_Witness ==
    /\ pc = "failed" /\ ret.err.kind = "invalid line"
    /\ IsBadLine(ret.err.text) /\ ret.err.text = bs[1]
    /\ Len(records) >= 2 /\ pageIdx = 2

\* C4 as claimed: the line "", "", "", "X", "Y", "Z", "W", "Page 2 of 3" is
\* taken for the page-footer sentinel and does not appear in the table.
C4_ScenarioBIsSentinel ==
    [][ Feeding(ScenarioBLine)
        => pc' = "page" /\ pageIdx' = pageIdx + 1 /\ records' = records ]_vars

\* C4 as amended: a line with 8 fields whose fields 1, 2 and 3 (counted from
\* 0) are empty and whose field 7 contains "Page " is the page-footer
\* sentinel and never gets into the table; the line of scenario B, whose
\* field 3 is "X", is an 8-field record and is appended to the table.
C4_FooterNeedsFields123Empty ==
    [][ /\ Feeding(FooterLine)
            => pc' = "page" /\ pageIdx' = pageIdx + 1 /\ records' = records
        /\ Feeding(ScenarioBLine)
            => pc' = "scan" /\ records' = Append(records, Split(ScenarioBLine, TAB))
      ]_vars

C4_Witness ==
    /\ pc = "done"
    /\ \E p \in 1..Len(pages) :
          /\ Len(BeforeSentinel(p)) < Len(BodyOf(p))
          /\ BodyOf(p)[Len(BeforeSentinel(p)) + 1] = FooterLine
          /\ \E k \in 1..Len(BeforeSentinel(p)) : BeforeSentinel(p)[k] = ScenarioBLine
    /\ \E k \in 1..Len(ret.records) : ret.records[k] = Split(ScenarioBLine, TAB)

\* what line 1 of page 1 says the account number is: the digits after
\* "CARD ", and -1 when the line is anything else
ClaimedAccount ==
    LET ls   == IF pages = <<>> THEN <<>> ELSE ScanLines(pages[1])
        rest == SubSeq(ls[2], Len(CardPrefix) + 1, Len(ls[2]))
    IN  IF /\ Len(ls) >= 2
           /\ HasPrefix(ls[2], CardPrefix)
           /\ rest # <<>>
           /\ \A k \in 1..Len(rest) : rest[k] \in Digits
        THEN DecimalVal(rest)
        ELSE -1

\* C5 as claimed: getCSV returns the number after "CARD " when line 1 of
\* page 1 is "CARD " and one decimal token, and -1 in every other case, the
\* parse going on.
C5_AccountNumberOrSentinel ==
    pc = "done" => ret.num = ClaimedAccount

----------------------------------------------------------------------------
(* Claims about the text reconstructor *)

\* the loop has just processed the operation op'
Executed == tpc = "loop" /\ opIdx' = opIdx + 1

\* C6 as claimed: every Tm after the first whose vertical offset is strictly
\* less than that of the most recently seen Tm appends exactly one newline
\* and sets the horizontal cursor to its own horizontal offset, no tab being
\* emitted.
C6_NewRowBelowLastSeenTm ==
    [][ (/\ Executed /\ WellFormedTm(op') /\ prevY # <<>>
         /\ Float(op'.Params[6]) < prevY[1])
        => /\ txt' = txt \o <<NL>>
           /\ xPos' = Float(op'.Params[5]) ]_vars

\* the k-th Tm/Tj pair of a stream BT, Tm, Tj, Tm, Tj, ...
ItemX(q, k) == Float(q[2 * k].Params[5])
ItemY(q, k) == Float(q[2 * k].Params[6])
ItemS(q, k) == q[2 * k + 1].Params[1].s
Items(q) == (Len(q) - 1) \div 2
Col(x) == findPositionIdx(x).val

\* inside a text block, rows at strictly decreasing vertical offsets, each
\* row Tm/Tj pairs at strictly increasing horizontal offsets in [0, 1100]
IsRowStream(q) ==
    /\ Len(q) >= 3 /\ Len(q) % 2 = 1
    /\ q[1] = BT
    /\ \A k \in 1..Items(q) :
          /\ WellFormedTm(q[2 * k])
          /\ ItemX(q, k) >= 0 /\ ItemX(q, k) <= Units(1100) /\ ItemY(q, k) >= 0
          /\ q[2 * k + 1].Operand = "Tj"
          /\ Len(q[2 * k + 1].Params) = 1 /\ q[2 * k + 1].Params[1].t = "string"
    /\ \A k \in 2..Items(q) :
          \/ ItemY(q, k) < ItemY(q, k - 1)
          \/ ItemY(q, k) = ItemY(q, k - 1) /\ ItemX(q, k) > ItemX(q, k - 1)

StartsRow(q, k) == k = 1 \/ ItemY(q, k) < ItemY(q, k - 1)

\* the text with every string preceded, in its line, by as many tabs as its
\* column index
RECURSIVE TabsByColumn(_, _)
TabsByColumn(q, k) ==
    IF k = 0 THEN <<>>
    ELSE TabsByColumn(q, k - 1)
         \o (IF k > 1 /\ StartsRow(q, k) THEN <<NL>> ELSE <<>>)
         \o Repeat(TAB, IF StartsRow(q, k) THEN Col(ItemX(q, k))
                        ELSE Col(ItemX(q, k)) - Col(ItemX(q, k - 1)))
         \o ItemS(q, k)

\* the text with the first string of a row preceded by no tab, and every
\* later one by the columns it lies beyond the string before it
RECURSIVE TabsFromRowStart(_, _)
TabsFromRowStart(q, k) ==
    IF k = 0 THEN <<>>
    ELSE TabsFromRowStart(q, k - 1)
         \o (IF k > 1 /\ StartsRow(q, k) THEN <<NL>> ELSE <<>>)
         \o Repeat(TAB, IF StartsRow(q, k) THEN 0
                        ELSE Col(ItemX(q, k)) - Col(ItemX(q, k - 1)))
         \o ItemS(q, k)

IsScenarioA(q) ==
    /\ IsRowStream(q) /\ Items(q) = 16
    /\ \A k \in 1..8 :
          /\ ItemX(q, k) = positions[k] /\ ItemY(q, k) = ItemY(q, 1)
          /\ ItemX(q, 8 + k) = positions[k] /\ ItemY(q, 8 + k) = ItemY(q, 9)
    /\ ItemY(q, 9) < ItemY(q, 1)

RECURSIVE ClaimedTJText(_)
ClaimedTJText(elems) ==
    IF elems = <<>> THEN <<>>
    ELSE LET e == elems[Len(elems)]
         IN  ClaimedTJText(SubSeq(elems, 1, Len(elems) - 1))
             \o (CASE e.t = "string" -> e.s
                   [] IsNumber(e) /\ Float(e) < Units(-100) -> <<SPACE>>
                   [] OTHER -> <<>>)

\* C9: a TJ inside a text block appends its string elements verbatim and in
\* order, one space for each number strictly below -100, and nothing for a
\* number at or above -100.
C9_TJSpacing ==
    [][ (/\ Executed /\ op'.Operand = "TJ" /\ inText
         /\ Len(op'.Params) >= 1 /\ op'.Params[1].t = "array"
         /\ \A k \in 1..Len(op'.Params[1].a) :
               op'.Params[1].a[k].t = "string" \/ IsNumber(op'.Params[1].a[k]))
        => /\ txt' = txt \o ClaimedTJText(op'.Params[1].a)
           /\ tpc' = "loop" ]_vars

C9_Witness ==
    /\ tpc = "returned"
    /\ stream = <<BT, TJOf(<<PdfString(<<"a">>), PdfInteger(-150), PdfString(<<"b">>)>>)>>
    /\ tret.txt = <<"a", SPACE, "b">>

\* C10 as claimed: a TJ inside a text block whose first operand is no array,
\* or whose array holds an element that is neither a string nor a number,
\* makes extractText fail; such an element is never passed over.
C10_MalformedTJIsFatal ==
    [][ (/\ Executed /\ op'.Operand = "TJ" /\ inText
         /\ Len(op'.Params) >= 1
         /\ \/ op'.Params[1].t # "array"
            \/ \E k \in 1..Len(op'.Params[1].a) :
                  op'.Params[1].a[k].t # "string" /\ ~IsNumber(op'.Params[1].a[k]))
        => /\ tpc' = "failed"
           /\ tret'.err # NoTextErr ]_vars

----------------------------------------------------------------------------
(* Claims about the position classifier *)

InRange(c) == 0 <= c /\ c <= Units(1100)
Classified == ppc = "classified"
Counted == ppc = "counted"

\* C11: every coordinate from 0 up to the first boundary (28) is classified
\* as column 0, and every coordinate from the last boundary (722.22) up to
\* 1100 as column 7.
C11_EdgeColumns ==
    Classified =>
        /\ (0 <= toPos /\ toPos <= positions[1])
               => posRet = [panic |-> NoPanic, val |-> 0]
        /\ (positions[Len(positions)] <= toPos /\ toPos <= Units(1100))
               => posRet = [panic |-> NoPanic, val |-> 7]

C11_Witness ==
    /\ Classified
    /\ toPos \in {0, positions[1], positions[Len(positions)], Units(1100)}

\* C12: for coordinates p < q, both within [0, 1100], howManyTabs(p, q) is
\* the column of q minus the column of p and is never negative.
C12_TabsAreColumnDifference ==
    (Counted /\ InRange(fromPos) /\ InRange(toPos) /\ fromPos < toPos) =>
        /\ posRet.panic = NoPanic
        /\ posRet.val = findPositionIdx(toPos).val - findPositionIdx(fromPos).val
        /\ posRet.val >= 0
        /\ \A c \in CoordPool :
              (InRange(c) /\ fromPos <= c /\ c <= toPos) =>
                  /\ findPositionIdx(fromPos).val <= findPositionIdx(c).val
                  /\ findPositionIdx(c).val <= findPositionIdx(toPos).val

C12_Witness ==
    /\ Counted /\ InRange(fromPos) /\ InRange(toPos) /\ fromPos < toPos
    /\ posRet = [panic |-> NoPanic, val |-> 7]

\* C13: a coordinate within [0, 1100] is classified as one of the columns
\* 0..7, and a coordinate below 0 or above 1100 ends in the invalid-position
\* panic; it is not clamped to column 0 or 7.
C13_IndexOrPanic ==
    Classified =>
        IF InRange(toPos)
        THEN posRet.panic = NoPanic /\ posRet.val \in 0..7
        ELSE posRet.panic = "invalid pos"

C13_Witness ==
    /\ Classified
    /\ toPos \in {0 - 1, Units(1100) + 1}
    /\ posRet.panic = "invalid pos"

Distance(a, b) == IF a >= b THEN a - b ELSE b - a

\* the smallest i with c below the midpoint of boundaries i and i+1, or 7
SmallestBelowMidpoint(c) ==
    LET Below == {i \in 0..(Len(positions) - 2) : c < Midpoint(i)}
    IN  IF Below = {} THEN Len(positions) - 1
        ELSE CHOOSE i \in Below : \A j \in Below : i <= j

\* C20: strictly between the first and the last boundary the column of a
\* coordinate is the smallest i with the coordinate below the midpoint of
\* boundaries i and i+1, and 7 if there is none; it is the index of a
\* nearest boundary, and a coordinate at a midpoint gets the higher column.
C20_NearestMidpointBinning ==
    (Classified /\ positions[1] < toPos /\ toPos < positions[Len(positions)]) =>
        /\ posRet.panic = NoPanic
        /\ posRet.val = SmallestBelowMidpoint(toPos)
        /\ \A j \in 0..(Len(positions) - 1) :
              Distance(toPos, positions[posRet.val + 1])
                  <= Distance(toPos, positions[j + 1])
        /\ \A i \in 0..(Len(positions) - 2) :
              toPos = Midpoint(i) => posRet.val = i + 1

C20_Witness ==
    /\ Classified
    /\ \E i \in 0..(Len(positions) - 2) : toPos = Midpoint(i) /\ posRet.val = i + 1

----------------------------------------------------------------------------
(* Claims about coordinates in the text reconstructor *)

\* the step runs a Tm with 6 operands and numeric offsets whose horizontal
\* offset is outside [0, 1100]
RunsTmOutOfRange ==
    /\ Executed
    /\ WellFormedTm(op')
    /\ ~InRange(Float(op'.Params[5]))

\* C14: a 6-operand Tm with numeric offsets whose horizontal offset is
\* outside [0, 1100] ends the reconstruction of the page in the
\* invalid-position panic, wherever in a row it occurs, so that no text is
\* returned for the page.
C14_OutOfRangeTmIsFatal ==
    [][RunsTmOutOfRange => (tpc' = "panicked" /\ tret'.err = "invalid pos")]_vars

----------------------------------------------------------------------------
(* Claims about pages, sentinels and header lines in the table assembler *)

\* how many lines of the current page the scanner has delivered
Delivered == Len(ScanLines(pages[pageIdx])) - Len(bs)

\* page p has a malformed line somewhere after its first sentinel line
BadAfterSentinel(p) ==
    \E k \in (Len(BeforeSentinel(p)) + 2)..Len(BodyOf(p)) : IsBadLine(BodyOf(p)[k])

\* C15: a sentinel line ends the ingestion of its own page only. The step
\* that meets it leaves the table and the result alone and goes on to the
\* next page; the scanner of a page is never read past the page's first
\* sentinel line, so a later line of the page is neither appended nor able
\* to fail the parse; and getCSV returns only after every page was visited.
C15_SentinelEndsPageOnly ==
    /\ [][ (pc = "scan" /\ bs # <<>> /\ line >= HeaderLines(pageIdx)
               /\ IsSentinelLine(bs[1]))
            => /\ pc' = "page" /\ pageIdx' = pageIdx + 1
               /\ records' = records /\ ret' = ret /\ num' = num ]_vars
    /\ [](pc = "scan" =>
             Delivered <= HeaderLines(pageIdx) + Len(BeforeSentinel(pageIdx)))
    /\ [](pc = "failed" =>
             \E k \in 1..Len(BeforeSentinel(pageIdx)) :
                 BeforeSentinel(pageIdx)[k] = ret.err.text)
    /\ [](pc = "done" => pageIdx = Len(pages) + 1)

C15_Witness ==
    /\ pc = "done" /\ Len(pages) = 2
    /\ BadAfterSentinel(1)
    /\ Len(BeforeSentinel(2)) >= 1
    /\ ret.records[Len(ret.records)]
          = Split(BeforeSentinel(2)[Len(BeforeSentinel(2))], TAB)

\* C16: lines 0, 1 and 2 of page 1 and line 0 of every later page are
\* consumed by position: whatever the line is, the step that takes it adds
\* no record and does not fail the parse, and it logs at most one warning.
C16_HeaderLinesArePositional ==
    [][ (pc = "scan" /\ bs # <<>> /\ line < HeaderLines(pageIdx))
        => /\ records' = records
           /\ pc' = "scan" /\ ret' = ret
           /\ line' = line + 1 /\ bs' = Tail(bs) /\ pageIdx' = pageIdx
           /\ \/ warnings' = warnings
              \/ /\ Len(warnings') = Len(warnings) + 1
                 /\ SubSeq(warnings', 1, Len(warnings)) = warnings
                 /\ warnings'[Len(warnings')].text = bs[1] ]_vars

C16_Witness ==
    /\ pc = "done" /\ Len(pages) = 2
    /\ IsBadLine(ScanLines(pages[2])[1])
    /\ Len(warnings) >= 1
    /\ warnings[Len(warnings)].text = ScanLines(pages[2])[1]
    /\ Len(ret.records) >= 2

----------------------------------------------------------------------------
(* Claims about ParsePDF as a whole *)

\* C17: ParsePDF called a second time on the same document returns the
\* same account number and the same table, row for row and field for field,
\* as the first call (and the same error when it fails): nothing the first
\* call left behind reaches the second.
C17_SecondCallSameResult ==
    (run = 2 /\ xpc = "returned") => out = first

C17_Witness ==
    /\ run = 2 /\ xpc = "returned"
    /\ Len(doc) = 2
    /\ out.err = NoErr /\ out.AccountNumber = 7
    /\ Len(out.Transactions) = 3
    /\ out.Transactions[3][1] = <<Euro, "0">>
    /\ out = first

----------------------------------------------------------------------------
(* Claims about Client.DownloadPDFs *)

PdfRequests == {k \in 1..Len(requests) : requests[k].path = PdfPath}

\* C19: with dryRun set, DownloadPDFs never sends the POST for
\* transactionHistory.pdf and never writes a file, however many cards there
\* are; once it has the card list and the token of the account page it
\* visits every card once, in order, and returns nil.
C19_DryRunSendsAndWritesNothing ==
    dryRun =>
        /\ PdfRequests = {}
        /\ files = <<>>
        /\ dpc = "loop" => printed = [k \in 1..(cardIdx - 1) |-> cards[k].SerialNumber]
        /\ (dpc = "returned" /\ csrfToken # "none") =>
               /\ dret = "nil"
               /\ printed = [k \in 1..Len(cards) |-> cards[k].SerialNumber]

C19_Witness ==
    /\ dryRun /\ dpc = "returned" /\ dret = "nil"
    /\ Len(cards) = MaxCards /\ Len(printed) = MaxCards
    /\ PdfRequests = {} /\ files = <<>>

----------------------------------------------------------------------------
(* Claims about the cursor of extractText *)

\* C21: a Tm that does not start a new row (its vertical offset is not below
\* that of the most recent Tm) and lies strictly right of the most recent Tm
\* appends exactly classify(new) - classify(last) tabs and becomes the current
\* horizontal offset; one that does not lie right of it appends nothing.
C21_TabsFromLastSeenTm ==
    [][ (/\ Executed /\ WellFormedTm(op') /\ prevX # <<>>
         /\ ~(Float(op'.Params[6]) < prevY[1])
         /\ InRange(prevX[1]) /\ InRange(Float(op'.Params[5])))
        => IF Float(op'.Params[5]) > prevX[1]
           THEN /\ txt' = txt \o Repeat(TAB, Col(Float(op'.Params[5])) - Col(prevX[1]))
                /\ xPos' = Float(op'.Params[5])
           ELSE txt' = txt ]_vars

\* the well-formed Tm operations of a page, in order
TmsOf(page) == SelectSeq(page, LAMBDA o : WellFormedTm(o))

\* C22: the cursor is local to a page: each call of extractText starts with
\* both positions unset, outside a text block and with an empty buffer, and
\* the first Tm of every page appends nothing, whatever the previous page (or
\* the previous call) left behind.
C22_CursorIsPageLocal ==
    /\ [][ (xpc = "text" /\ Executed /\ op'.Operand = "Tm" /\ prevX = <<>>)
           => txt' = txt ]_vars
    /\ []( (xpc = "text" /\ tpc = "loop" /\ opIdx = 0)
           => /\ xPos = Unset /\ yPos = Unset
              /\ inText = FALSE /\ txt = <<>> )

\* the first Tm of page 2 has run; it lies below the last Tm of page 1
C22_Witness ==
    /\ xpc = "text" /\ tpc = "loop" /\ pageNo = 2
    /\ TmsOf(doc[1]) # <<>> /\ TmsOf(doc[2]) # <<>>
    /\ LET last == TmsOf(doc[1])[Len(TmsOf(doc[1]))]
           head == TmsOf(doc[2])[1]
       IN  /\ Float(head.Params[6]) < Float(last.Params[6])
           /\ op = head
           /\ TmsOf(SubSeq(stream, 1, opIdx)) = <<head>>
           /\ xPos = Float(head.Params[5]) /\ yPos = Float(head.Params[6])
    /\ \A k \in 1..Len(txt) : txt[k] \notin {NL, TAB}

\* whether the last BT or ET of a sequence of operations is a BT
RECURSIVE LastIsBT(_)
LastIsBT(ops) ==
    IF ops = <<>> THEN FALSE
    ELSE IF ops[Len(ops)].Operand = "BT" THEN TRUE
    ELSE IF ops[Len(ops)].Operand = "ET" THEN FALSE
    ELSE LastIsBT(SubSeq(ops, 1, Len(ops) - 1))

\* a Tj with a string, or a TJ with an array, that has a character to show
HasText(o) ==
    /\ Len(o.Params) >= 1
    /\ \/ o.Operand = "Tj" /\ o.Params[1].t = "string" /\ o.Params[1].s # <<>>
       \/ /\ o.Operand = "TJ" /\ o.Params[1].t = "array"
          /\ \E k \in 1..Len(o.Params[1].a) :
                LET e == o.Params[1].a[k]
                IN  \/ e.t = "string" /\ e.s # <<>>
                    \/ IsNumber(e) /\ Float(e) < Units(-100)

\* C23: the text-block flag is "the last BT/ET seen was BT" after any
\* sequence of operators; a Tj or TJ changes the page text only when that
\* holds, and one that has characters to show then does append them; outside
\* a text block a Tj or TJ leaves the text unchanged and raises no error,
\* malformed operands included.
C23_TextOnlyInsideBlock ==
    /\ [](tpc = "loop" => inText = LastIsBT(SubSeq(stream, 1, opIdx)))
    /\ [][ (Executed /\ op'.Operand \in {"Tj", "TJ"})
           => LET inBlock == LastIsBT(SubSeq(stream, 1, opIdx))
              IN  /\ txt' # txt => inBlock
                  /\ (inBlock /\ HasText(op')) => (txt' # txt /\ tpc' = "loop")
                  /\ ~inBlock => (txt' = txt /\ tpc' = "loop") ]_vars

\* BT, Tj (a), ET, Tj 1: the text is "a" and the loop goes on
C23_Witness ==
    /\ stream = <<BT, TjOf(<<"a">>), ET, Operation("Tj", <<PdfInteger(1)>>)>>
    /\ opIdx = 4 /\ tpc = "loop"
    /\ txt = <<"a">> /\ inText = FALSE

\* C24: every Td, TD or T* appends exactly one newline, inside or outside a
\* text block and wherever the cursor is, and leaves both positions and the
\* text-block flag as they were.
C24_LineAdvanceAlwaysNewline ==
    [][ (Executed /\ op'.Operand \in {"Td", "TD", "T*"})
        => /\ txt' = txt \o <<NL>>
           /\ xPos' = xPos /\ yPos' = yPos /\ inText' = inText ]_vars

\* a Td outside a text block, after a Tm has set the cursor
C24_Witness ==
    /\ tpc = "loop" /\ op.Operand = "Td"
    /\ inText = FALSE
    /\ xPos # Unset /\ yPos # Unset
    /\ txt = <<NL>>

\* C25: a Tm that has not 6 operands, or whose operand 4 or 5 is not a
\* number, appends nothing, leaves both positions and the text-block flag as
\* they were and is no error; a Tm with the integer operands 28 and 700
\* moves the cursor as the Tm with the floats 28.0 and 700.0 does.
C25_MalformedTmIsSkipped ==
    /\ [][ (/\ Executed /\ op'.Operand = "Tm"
            /\ \/ Len(op'.Params) # 6
               \/ op'.Params[5].t \notin {"int", "float"}
               \/ op'.Params[6].t \notin {"int", "float"})
           => /\ txt' = txt /\ xPos' = xPos /\ yPos' = yPos /\ inText' = inText
              /\ tpc' = "loop" ]_vars
    /\ [][ (/\ Executed
            /\ op' = Operation("Tm", Identity \o <<PdfInteger(28), PdfInteger(700)>>))
           => /\ MoveCursor(Units(28), Units(700))
              /\ inText' = inText ]_vars

\* a Tm with 5 operands has been skipped after text was drawn
C25_Witness ==
    /\ tpc = "loop"
    /\ op = Operation("Tm", Identity \o <<PdfFloat(5600)>>)
    /\ xPos # Unset /\ yPos # Unset /\ inText
    /\ txt # <<>>

----------------------------------------------------------------------------
(* Client.cards called from several goroutines on one Client *)

MaxCallers == 2
Callers == 1..MaxCallers

\* what of the Client and of DownloadPDFs a call of cards() cannot touch
notCards == <<csvVars, textVars, posVars, parseVars, twiceVars, concVars, lineVars,
              dryRun, resp, cards, csrfToken, cardIdx, requests, files, printed, dpc, dret>>

\* NewClient, and no call of cards() yet
InitCards ==
    /\ CSVIdle /\ TextIdle /\ PosIdle /\ ParseIdle /\ DownloadIdle /\ LineIdle
    /\ cpc = [i \in Callers |-> "idle"]
    /\ cresp = [i \in Callers |-> NoResponse]
    /\ cret = [i \in Callers |-> "none"]
    /\ holder = 0

\* call i leaves cards() with the error e
CardsReturn(i, e) ==
    /\ cpc' = [cpc EXCEPT ![i] = "returned"]
    /\ cret' = [cret EXCEPT ![i] = e]

\* c.mu.Unlock()
Unlock == mu' = FALSE /\ holder' = 0

CallCards(i) ==
    /\ cpc[i] = "idle"
    /\ cpc' = [cpc EXCEPT ![i] = "lock"]
    /\ UNCHANGED <<loggedIn, mu, cresp, cret, holder>>

\* c.mu.Lock(): blocks while another call holds the mutex
Lock(i) ==
    /\ cpc[i] = "lock"
    /\ mu = FALSE
    /\ mu' = TRUE /\ holder' = i
    /\ cpc' = [cpc EXCEPT ![i] = "locked"]
    /\ UNCHANGED <<loggedIn, cresp, cret>>

\* if c.loggedIn { c.mu.Unlock(); c.dashboard(ctx) } else { c.login(ctx) }
IfLoggedIn(i) ==
    /\ cpc[i] = "locked"
    /\ IF loggedIn
       THEN /\ Unlock
            /\ cpc' = [cpc EXCEPT ![i] = "dashboard"]
       ELSE /\ cpc' = [cpc EXCEPT ![i] = "loginPage"]
            /\ UNCHANGED <<mu, holder>>
    /\ UNCHANGED <<loggedIn, cresp, cret>>

\* dashboard: GET account.html
GoDashboard(i, r) ==
    /\ cpc[i] = "dashboard"
    /\ cresp' = [cresp EXCEPT ![i] = r]
    /\ IF r.err THEN CardsReturn(i, "transport")
       ELSE IF r.status # 200 THEN CardsReturn(i, "status")
       ELSE /\ cpc' = [cpc EXCEPT ![i] = "readCards"]
            /\ UNCHANGED cret
    /\ UNCHANGED <<loggedIn, mu, holder>>

\* GoLoginPage with cards returning the error of login without unlocking
GoLoginPageKeepsLock(i, r) ==
    /\ cpc[i] = "loginPage"
    /\ cresp' = [cresp EXCEPT ![i] = r]
    /\ IF r.err THEN CardsReturn(i, "transport")
       ELSE IF r.status # 200 THEN CardsReturn(i, "status")
       ELSE IF r.csrf = "none" THEN CardsReturn(i, "csrf")
       ELSE IF r.broken THEN CardsReturn(i, "body")
       ELSE /\ cpc' = [cpc EXCEPT ![i] = "loginPost"]
            /\ UNCHANGED cret
    /\ UNCHANGED <<loggedIn, mu, holder>>

\* login: GET login.html and the token on it; cards unlocks on an error
GoLoginPage(i, r) ==
    /\ cpc[i] = "loginPage"
    /\ cresp' = [cresp EXCEPT ![i] = r]
    /\ IF r.err THEN CardsReturn(i, "transport") /\ Unlock
       ELSE IF r.status # 200 THEN CardsReturn(i, "status") /\ Unlock
       ELSE IF r.csrf = "none" THEN CardsReturn(i, "csrf") /\ Unlock
       ELSE IF r.broken THEN CardsReturn(i, "body") /\ Unlock
       ELSE /\ cpc' = [cpc EXCEPT ![i] = "loginPost"]
            /\ UNCHANGED <<mu, holder, cret>>
    /\ UNCHANGED loggedIn

\* login: POST the form; 200 and 302 set c.loggedIn; cards unlocks
GoLoginPost(i, r) ==
    /\ cpc[i] = "loginPost"
    /\ cresp' = [cresp EXCEPT ![i] = r]
    /\ Unlock
    /\ IF r.err THEN CardsReturn(i, "transport") /\ UNCHANGED loggedIn
       ELSE IF r.status \notin {200, 302}
       THEN CardsReturn(i, "status") /\ UNCHANGED loggedIn
       ELSE /\ loggedIn' = TRUE
            /\ cpc' = [cpc EXCEPT ![i] = "readCards"]
            /\ UNCHANGED cret

\* ioutil.ReadAll, Close, getCards
GoReadCards(i) ==
    /\ cpc[i] = "readCards"
    /\ IF cresp[i].broken THEN CardsReturn(i, "body")
       ELSE IF cresp[i].cardsErr THEN CardsReturn(i, "cards")
       ELSE CardsReturn(i, "nil")
    /\ UNCHANGED <<loggedIn, mu, cresp, holder>>

NextCards ==
    \/ \E i \in Callers : CallCards(i) /\ UNCHANGED notCards
    \/ \E i \in Callers : Lock(i) /\ UNCHANGED notCards
    \/ \E i \in Callers : IfLoggedIn(i) /\ UNCHANGED notCards
    \/ \E i \in Callers, r \in CardResponses : GoDashboard(i, r) /\ UNCHANGED notCards
    \/ \E i \in Callers, r \in PageResponses : GoLoginPage(i, r) /\ UNCHANGED notCards
    \/ \E i \in Callers, r \in CardResponses : GoLoginPost(i, r) /\ UNCHANGED notCards
    \/ \E i \in Callers : GoReadCards(i) /\ UNCHANGED notCards

\* every call that can take a step is scheduled, and every request is answered
SpecCards == InitCards /\ [][NextCards]_vars /\ WF_vars(NextCards)

----------------------------------------------------------------------------
(* Claims about parseLine on its own *)

\* what the claim says parseLine returns for a line, from its tab-split fields
ClaimedParse(t) ==
    LET f == Split(t, TAB)
    IN  IF \/ /\ Len(f) = 8
              /\ f[2] = <<>> /\ f[3] = <<>> /\ f[4] = <<>>
              /\ Contains(f[8], <<"P", "a", "g", "e", " ">>)
           \/ Len(f) < 8 /\ Contains(f[1], Disclaimer)
        THEN [parts |-> <<>>, err |-> EOF]
        ELSE IF Len(f) = 8 THEN [parts |-> f, err |-> NoErr]
        ELSE [parts |-> <<>>, err |-> InvalidLine(t)]

\* C26: parseLine returns the end-of-table sentinel exactly for a line of 8
\* fields with fields 1, 2, 3 empty and "Page " in field 7, and for a line of
\* fewer than 8 fields with the disclaimer in field 0; any other line of 8
\* fields comes back as a record, unchanged, and any other count is the
\* invalid-line error.
C26_ParseLineByFields ==
    lpc = "parsed" => lineOut = ClaimedParse(lineIn)

\* more than 8 fields, the disclaimer in field 0: an invalid line
C26_Witness ==
    /\ lpc = "parsed"
    /\ Len(Split(lineIn, TAB)) > 8
    /\ Contains(Split(lineIn, TAB)[1], Disclaimer)
    /\ lineOut.err = InvalidLine(lineIn)

----------------------------------------------------------------------------
(* Claims about the results of a failed ParsePDF *)

\* C27: a failed extractText returns the empty text, a getCSV that hit an
\* invalid line returns no records, and a ParsePDF that returns an error
\* returns with it account number 0 and no rows, whatever getCSV had read
\* and accepted before the failing line.
C27_NoPartialResult ==
    /\ tpc = "failed" => (tret.txt = <<>> /\ tret.err # NoTextErr)
    /\ pc = "failed" => (ret.records = <<>> /\ ret.err.kind = "invalid line")
    /\ (xpc = "returned" /\ out.err # NoErr)
           => (out.AccountNumber = 0 /\ out.Transactions = <<>>)

\* an invalid line on page 2, after the account number and a record were read
C27_Witness ==
    /\ xpc = "returned" /\ pc = "failed"
    /\ out.err.kind = "invalid line"
    /\ num > 0 /\ Len(records) >= 2
    /\ out.AccountNumber = 0 /\ out.Transactions = <<>>

----------------------------------------------------------------------------
(* Claims about the panics of extractText *)

\* C28: extractText calls howManyTabs only with prev < cur: a Tm after which
\* tabs were appended, or after which the page panicked, lay strictly right
\* of the cursor, and the only panic extractText ends in is the
\* invalid-coordinate one, never "not expected".
C28_OnlyInvalidCoordinatePanics ==
    /\ [](tpc = "panicked" => tret.err = "invalid pos")
    /\ [][ (/\ Executed /\ op'.Operand = "Tm"
            /\ \/ tpc' = "panicked"
               \/ Len(txt') > Len(txt) /\ txt'[Len(txt')] = TAB)
           => /\ WellFormedTm(op')
              /\ xPos # Unset
              /\ xPos < Float(op'.Params[5]) ]_vars

\* tabs were appended, then a Tm to the right of 1100 panicked
C28_Witness ==
    /\ tpc = "panicked" /\ tret.err = "invalid pos"
    /\ \E k \in 1..Len(txt) : txt[k] = TAB
    /\ xPos < Float(op.Params[5])

----------------------------------------------------------------------------
(* Claims about the trimming of a page *)

IsBlank(text) == \A k \in 1..Len(text) : text[k] \in WhiteSpace

\* the lines without the blank ones at either end
RECURSIVE DropBlankEnds(_)
DropBlankEnds(lines) ==
    IF lines = <<>> THEN <<>>
    ELSE IF IsBlank(lines[1]) THEN DropBlankEnds(Tail(lines))
    ELSE IF IsBlank(lines[Len(lines)]) THEN DropBlankEnds(SubSeq(lines, 1, Len(lines) - 1))
    ELSE lines

\* every line of the trimmed page has as many fields as the line of the
\* reconstructed text it comes from
SameFieldCounts(raw, trimmed) ==
    LET before == DropBlankEnds(Split(raw, NL))
        after  == Split(trimmed, NL)
    IN  before # <<>>
            => /\ Len(after) = Len(before)
               /\ \A k \in 1..Len(before) : FieldCount(after[k]) = FieldCount(before[k])

\* C29: when a page is stored, each of its lines has the number of
\* tab-separated fields the line had in the text extractText returned.
C29_TrimmingKeepsFieldCounts ==
    [][ (xpc = "text" /\ tpc = "returned" /\ pageNo' = pageNo + 1)
        => SameFieldCounts(tret.txt, pages'[pageNo]) ]_vars

----------------------------------------------------------------------------
(* Claims about concurrent calls of cards() *)

InLogin(i) == cpc[i] \in {"loginPage", "loginPost"}

\* C30: a call is inside login only while it holds c.mu, so at most one
\* login is in progress; a call that has left cards(), failed logins
\* included, does not hold c.mu, and a call waiting for c.mu gets past the
\* Lock; loggedIn changes only from false to true, with a login response of
\* status 200 or 302; once it is true, no call that has not yet tested it
\* enters login.
C30_LoginUnderMutex ==
    /\ [](\A i \in Callers : InLogin(i) => (mu /\ holder = i))
    /\ [](Cardinality({i \in Callers : InLogin(i)}) <= 1)
    /\ [](mu <=> holder # 0)
    /\ [](\A i \in Callers : holder = i => cpc[i] \in {"locked", "loginPage", "loginPost"})
    /\ []((\A i \in Callers : cpc[i] \in {"idle", "returned"}) => ~mu)
    /\ \A i \in Callers : (cpc[i] = "lock") ~> (cpc[i] # "lock")
    /\ [][ loggedIn' # loggedIn
           => /\ ~loggedIn /\ loggedIn'
              /\ \E i \in Callers :
                    /\ cpc[i] = "loginPost" /\ holder = i
                    /\ ~cresp'[i].err /\ cresp'[i].status \in {200, 302} ]_vars
    /\ [][ \A i \in Callers :
              (loggedIn /\ cpc[i] \in {"idle", "lock", "locked"}) => ~InLogin(i)' ]_vars

\* the login of call 1 failed, then call 2 logged in and got the cards
C30_Witness ==
    /\ cpc[1] = "returned" /\ cret[1] = "status" /\ cresp[1].status = 500
    /\ cpc[2] = "returned" /\ cret[2] = "nil" /\ cresp[2].status = 302
    /\ loggedIn /\ ~mu /\ holder = 0
====
